---- MODULE Spec2Model ----
(***************************************************************************)
(* Hybrid playback orchestrator of altster (src/lib/spotify/player.ts):    *)
(* the shared preview audio element, the unlock / keep-alive flags, the    *)
(* Web Playback SDK session and the playTrack fallback chain               *)
(* SDK -> preview -> Connect API.                                          *)
(*                                                                         *)
(* One step of the model is one task of the page's event loop: the         *)
(* synchronous code of a handler together with the promise continuations   *)
(* (microtasks) it releases, up to the next await on the network, on a     *)
(* media event, on an SDK event or on a timer.                             *)
(*                                                                         *)
(* playTrack calls are issued one after the other (the caller contract of  *)
(* the orchestrator); every other exported operation and every browser or  *)
(* SDK event may occur while a call is in flight.  The fields fn, steps,   *)
(* status, kaAtEntry, stopped and signal of a call are history: they       *)
(* record what the call did and are read by no operation.                  *)
(*                                                                         *)
(* Spec is the orchestrator driven through playTrack.  SpecUI is the       *)
(* deferred-play path: loadTrack and the UI hook's changeVolume            *)
(* (src/lib/spotify/types.ts) over the same preview element.  SpecScan is  *)
(* the QR scanner hook (src/hooks/useQRScanner.ts, src/lib/qr/parser.ts)   *)
(* up to the track id it hands to the UI's play entry point.  SpecHook is  *)
(* the UI hook's play / pause / resume / stop over the store; there each   *)
(* awaited playTrack is a promise that settles in one of the ways          *)
(* playTrack can settle, so that invocations of play() may overlap.        *)
(* SpecProgress is onPreviewProgress: subscriptions, their disposers and   *)
(* the 'timeupdate' events of the element.                                 *)
(* SpecVolume is the hook's play() over playTrack itself, with the store's  *)
(* volume.  SpecCamera is the scanner component's life: mounting and       *)
(* unmounting around the camera's start() and stop().  SpecAuth is the     *)
(* auth store (src/store/authStore.ts, src/lib/spotify/auth.ts): the       *)
(* OAuth callback, token refresh, initialize and logout, opened on what    *)
(* the browser's storages hold.                                            *)
(***************************************************************************)
EXTENDS Integers, Sequences, FiniteSets, TLC

\* ------------------------------------------------------------------ bounds
MaxCalls == 2      \* playTrack calls issued in one page lifetime
MaxTime  == 1      \* playback positions 0..MaxTime; MaxTime is the clip's end
MaxTicks == 4      \* clock steps after the page was opened
MaxMounts == 2     \* times the scanner component is mounted
MaxSubs  == 2      \* subscriptions made through onPreviewProgress
MaxInits == 2      \* components that call initialize() when they mount
MaxFlows == 3      \* requests the auth store sends in one page lifetime

\* --------------------------------------------------------------- constants
DefaultVolume  == 80       \* playTrack's default volume parameter
ElementDefaultVolume == 100 \* volume (x100) of a fresh Audio()
StoreDefaultVolume == 80   \* the store's initial volume
SCAN_COOLDOWN == 2000      \* ms
PageLoadTime  == 10000     \* Date.now() when the page is opened, ms
ClockStep     == 1000      \* ms between two readings of the clock

NoToken   == "null"
Tokens    == {NoToken, "", "tok"}
TrackIds  == {"trackA", "trackB"}
Volumes   == {30, DefaultVolume}
NoUrl     == "null"
SILENT_AUDIO_SRC == "data:audio/wav;silent"
PreviewUrlOf(trackId) == "preview:" \o trackId

LoginMessage    == "Please log in with Spotify to play tracks."
MetadataMessage == "Failed to fetch track details"
TerminalMessage == "Could not play track. Please open Spotify on a device and try again."
PreviewFailedMessage == "Failed to play audio preview"

\* ------------------------------------------------------- platform detection
\* navigator profiles the page may run under
Navigators ==
  { [defined |-> TRUE, userAgent |-> "iPhone",  platform |-> "iPhone",   maxTouchPoints |-> 5],
    [defined |-> TRUE, userAgent |-> "Macintosh", platform |-> "MacIntel", maxTouchPoints |-> 5],
    [defined |-> TRUE, userAgent |-> "Macintosh", platform |-> "MacIntel", maxTouchPoints |-> 0] }

isIOSDevice_uaOnly(n) ==
  IF ~n.defined THEN FALSE ELSE n.userAgent \in {"iPad", "iPhone", "iPod"}

isIOSDevice(n) ==
  IF ~n.defined THEN FALSE
  ELSE LET isIOS    == n.userAgent \in {"iPad", "iPhone", "iPod"}
           isIPadOS == n.platform = "MacIntel" /\ n.maxTouchPoints > 1
       IN  isIOS \/ isIPadOS

\* ------------------------------------------------------------------ errors
NotAllowedError   == [dom |-> TRUE,  name |-> "NotAllowedError",   message |-> "play() not allowed"]
NotSupportedError == [dom |-> TRUE,  name |-> "NotSupportedError", message |-> "no supported source"]
AbortError        == [dom |-> TRUE,  name |-> "AbortError",        message |-> "interrupted by load or pause"]
AutoplayBlockedError == [dom |-> FALSE, name |-> "AutoplayBlockedError", message |-> "Autoplay was blocked"]

\* messages whose lower-cased text contains 'notallowed', 'not allowed' or 'autoplay'
AutoplayMessages == {"Autoplay was blocked", "play() not allowed"}

isAutoplayBlockedError(error) ==
  IF error.dom THEN error.name = "NotAllowedError"
  ELSE error.message \in AutoplayMessages

\* ------------------------------------------------- the shared audio element
\* volume is the element's native volume times 100; pending names the caller
\* whose play() promise has not settled yet; error is the element's error
\* attribute being set (the source could not be used)
NullAudio ==
  [exists |-> FALSE, src |-> "", paused |-> TRUE, loop |-> FALSE, muted |-> FALSE,
   volume |-> ElementDefaultVolume, currentTime |-> 0, pending |-> "none",
   error |-> FALSE]

ensureAudioElement(a) == IF a.exists THEN a ELSE [NullAudio EXCEPT !.exists = TRUE]

\* HTMLMediaElement.pause(): pausing rejects the pending play() promise (AbortError)
ElPause(a) == IF a.paused THEN a ELSE [a EXCEPT !.paused = TRUE, !.pending = "none"]

\* media element load algorithm (element.load(), and every assignment of src)
ElLoad(a) ==
  [a EXCEPT !.paused = TRUE, !.currentTime = 0, !.pending = "none", !.error = FALSE]

ElSetSrc(a, url) == ElLoad([a EXCEPT !.src = url])

\* HTMLMediaElement.play() when the browser accepts it for caller `owner`; on
\* an element whose source has failed play() is rejected and changes nothing
ElPlay(a, owner) ==
  IF a.error THEN a
  ELSE [a EXCEPT !.paused = FALSE,
                 !.pending = IF owner = "none" THEN a.pending ELSE owner]

stopPreview_noReset(a) == IF a.exists THEN ElPause(a) ELSE a

\* player.ts:279-284
stopPreview(a) == IF a.exists THEN [ElPause(a) EXCEPT !.currentTime = 0] ELSE a

pausePreview(a) == IF a.exists THEN ElPause(a) ELSE a

\* ------------------------------------------------------------------- state
VARIABLES
  nav,              \* the browser's navigator (fixed for the page lifetime)
  auth,             \* authStore.ts:59-66 with localStorage and sessionStorage
  audioElement,     \* player.ts:5
  audioUnlocked,    \* player.ts:6
  keepAliveActive,  \* player.ts:7
  spotifyPlayer,    \* player.ts:53, index into players, 0 = null
  deviceId,         \* player.ts:54, index into players, 0 = null
  windowSpotify,    \* window.Spotify is defined (the SDK script has run)
  scriptsLoading,   \* SDK script elements appended and not yet executed
  scriptTags,       \* SDK script elements appended in total
  onSDKReady,       \* window.onSpotifyWebPlaybackSDKReady: id of the call whose
                    \* resolve/reject it captures, 0 = unset
  players,          \* every Spotify.Player constructed so far
  camera,           \* the QRScanner component, its hook's refs and the camera scanner
  race,             \* player.ts:455-485, the closure of the waitForPlaybackStart
                    \* made for the latest playTrack call
  call,             \* the playTrack / loadTrack call in flight, or the last one settled
  ncalls,           \* playTrack / loadTrack calls issued so far
  playerStore,      \* the UI layer's store (usePlayerStore)
  progressSubs,     \* the subscriptions made through onPreviewProgress
  hookCalls,        \* the invocations of the UI hook's play(), in the order issued
  scanner           \* the QR scanner hook: its refs, the scan store, the clock, and
                    \* the track ids it has handed to onScanSuccess

sdkVars   == <<spotifyPlayer, deviceId, windowSpotify, scriptsLoading, scriptTags, onSDKReady, players>>
audioVars == <<audioElement, audioUnlocked, keepAliveActive>>
vars      == <<nav, auth, camera, race, audioElement, audioUnlocked, keepAliveActive, spotifyPlayer, deviceId,
               windowSpotify, scriptsLoading, scriptTags, onSDKReady, players, call, ncalls,
               playerStore, hookCalls, scanner, progressSubs>>

NoTrack == [id |-> "", preview_url |-> NoUrl]

\* README.md:353-362 usePlayerStore initial state
InitStore ==
  [currentTrack |-> NoTrack, isPlaying |-> FALSE, playbackType |-> "null", progress |-> 0,
   volume |-> StoreDefaultVolume, error |-> "null", isLoading |-> FALSE]

\* useQRScanner.ts:17 lastScanTimeRef, scanStore initial state (part_002:22-27);
\* now is Date.now()
InitScanner ==
  [now |-> PageLoadTime, lastScanTime |-> 0, lastScannedCode |-> "null",
   lastTrackId |-> "null", error |-> "null", passed |-> <<>>]

Pending == [st |-> "pending"]
Resolved(v) == [st |-> "resolved", value |-> v]
Rejected(m) == [st |-> "rejected", message |-> m]

IdleCall ==
  [id |-> 0, fn |-> "", pc |-> "idle", trackId |-> "", token |-> NoToken, volume |-> DefaultVolume,
   meta |-> "none", status |-> 0, track |-> NoTrack,
   steps |-> <<>>, initTimer |-> FALSE, dev |-> 0, result |-> Pending,
   kaAtEntry |-> FALSE, stopped |-> FALSE, signal |-> "none"]

\* part_005:14: the page opens on the player view, the scanner is not mounted;
\* scanStore (part_002:22-27) isScanning and isCameraReady are false
InitCamera ==
  [mounted |-> FALSE, mounts |-> 0, scannerRef |-> FALSE, state |-> "NOT_STARTED",
   isStarting |-> FALSE, isStopping |-> FALSE,
   startPending |-> FALSE, stopPending |-> FALSE, cleanupPending |-> FALSE,
   isScanning |-> FALSE, isCameraReady |-> FALSE]

\* no detector has been created yet
NoRace ==
  [armed |-> FALSE, listeners |-> {}, done |-> FALSE, resolved |-> 0]

\* player.ts:455-485: a fresh detector, three listeners on the element and
\* the 300 ms timer set
waitForPlaybackStart ==
  [armed |-> TRUE, listeners |-> {"playing", "timeupdate", "pause"},
   done |-> FALSE, resolved |-> 0]

finish_noCleanup(r, started) ==
  IF r.done THEN r
  ELSE [r EXCEPT !.done = TRUE, !.resolved = @ + 1]

\* player.ts:458-463 finish: first call wins, cleanup() (471-475) removes the
\* three listeners, resolve(started)
finish(r, started) ==
  IF r.done THEN r
  ELSE [r EXCEPT !.done = TRUE, !.listeners = {}, !.resolved = @ + 1]

\* ---------------------------------------------------- the auth store: data
\* Tokens and the user profile are small integers, 0 = null. The tokens of
\* localStorage were saved by an earlier visit, the exchange and the refresh
\* endpoints each issue a new access token; a time is 0 = null or a clock
\* value.
StoredAccessToken    == 1
StoredRefreshToken   == 1
ExchangedAccessToken == 2
ExchangedRefreshToken == 2
RefreshedAccessToken == 3
UserProfile          == 1
AuthNow              == 1    \* Date.now() while the page is open
ExpiresIn            == 1    \* expires_in of a token response

InvalidStateMessage  == "Invalid state parameter. Possible CSRF attack."
NoVerifierMessage    == "Code verifier not found. Please restart the login process."
ExchangeFailedMessage == "Failed to exchange code for token"
RefreshFailedMessage == "Failed to refresh token"
ProfileFailedMessage == "Failed to fetch user profile"
NoRefreshTokenMessage == "No refresh token available"

\* localStorage['spotify_tokens']: absent, not JSON, or saved tokens
NoTokens == [kind |-> "none", accessToken |-> 0, refreshToken |-> 0, expiresAt |-> 0]

SavedTokens(accessToken, refreshToken, expiresAt) ==
  [kind |-> "tokens", accessToken |-> accessToken, refreshToken |-> refreshToken,
   expiresAt |-> expiresAt]

\* what an earlier visit can have left in localStorage: nothing, text that
\* does not parse, tokens that have expired, tokens that are still valid
LocalStorages ==
  {NoTokens, [NoTokens EXCEPT !.kind = "garbage"],
   SavedTokens(StoredAccessToken, StoredRefreshToken, AuthNow),
   SavedTokens(StoredAccessToken, StoredRefreshToken, AuthNow + ExpiresIn)}

\* auth.ts:47-52 sessionStorage after redirectToSpotifyAuth: the code verifier
\* and the state value (1); 0 = no login was started in this tab
SessionStorages == {[state |-> 0, verifier |-> FALSE], [state |-> 1, verifier |-> TRUE]}

\* the state values a callback URL can carry: the one sent at login, another
CallbackStates == {1, 2}

\* authStore.ts:59-66 the store when the module is loaded, with the two
\* browser storages, the App's callbackProcessed ref (part_005:20-35), the
\* requests in flight and two history fields: inits counts initialize()
\* calls and loggedOut says that logout() has returned and no operation was
\* started since.
AuthStore(localStorage, sessionStorage) ==
  [accessToken |-> 0, refreshToken |-> 0, expiresAt |-> 0, user |-> 0,
   isAuthenticated |-> FALSE, isLoading |-> FALSE, error |-> "null",
   localStorage |-> localStorage, sessionStorage |-> sessionStorage,
   callbackProcessed |-> FALSE, flows |-> {}, nflows |-> 0, inits |-> 0,
   loggedOut |-> FALSE]

\* authStore.ts:33-43 loadTokensFromStorage: null unless the item parses
loadTokensFromStorage(a) ==
  IF a.localStorage.kind = "tokens" THEN a.localStorage ELSE NoTokens

\* authStore.ts:46-52 saveTokensToStorage
saveTokensToStorage(a, tokens) == [a EXCEPT !.localStorage = tokens]

\* authStore.ts:55-57 clearTokensFromStorage
clearTokensFromStorage(a) == [a EXCEPT !.localStorage = NoTokens]

validateState_acceptsAny(storedState, returnedState) == TRUE

\* auth.ts:134-137 validateState
validateState(storedState, returnedState) == storedState = returnedState

\* a request sent by operation fn and awaited at pc; access and refresh are
\* the tokens the operation holds in its local variables
Flow(a, fn, pc, access, refresh) ==
  [id |-> a.nflows + 1, fn |-> fn, pc |-> pc, access |-> access, refresh |-> refresh]

Send(a, flow) == [a EXCEPT !.flows = @ \cup {flow}, !.nflows = @ + 1]

\* authStore.ts:80-90 logout (isLoading is not among the fields it sets)
logout(a) ==
  [clearTokensFromStorage(a) EXCEPT !.accessToken = 0, !.refreshToken = 0,
                                    !.expiresAt = 0, !.user = 0,
                                    !.isAuthenticated = FALSE, !.error = "null",
                                    !.loggedOut = TRUE]

\* authStore.ts:121-127, 160-166 the catch blocks' set(...)
Fail(a, message) == [a EXCEPT !.error = message, !.isLoading = FALSE]

\* authStore.ts:92-101 handleCallback and auth.ts:69-91 exchangeCodeForToken,
\* up to the token request: a state that does not validate, or a missing
\* code verifier, goes to the catch block (authStore.ts:120-127)
handleCallback(a, code, state) ==
  LET a1 == [a EXCEPT !.isLoading = TRUE, !.error = "null", !.loggedOut = FALSE]
  IN  IF ~validateState(a1.sessionStorage.state, state)
      THEN clearTokensFromStorage(Fail(a1, InvalidStateMessage))
      ELSE IF ~a1.sessionStorage.verifier
      THEN clearTokensFromStorage(Fail(a1, NoVerifierMessage))
      ELSE Send(a1, Flow(a1, "handleCallback", "exchange", 0, 0))

\* authStore.ts:132-141 refreshAccessToken up to the refresh request
refreshAccessToken(a) ==
  IF a.refreshToken = 0
  THEN Fail(a, NoRefreshTokenMessage)
  ELSE Send(a, Flow(a, "refresh", "refresh", 0, a.refreshToken))

\* authStore.ts:170-207 initialize up to its request
initialize(a) ==
  LET stored == loadTokensFromStorage(a)
      a1     == [a EXCEPT !.inits = @ + 1, !.loggedOut = FALSE]
  IN  IF stored.kind # "tokens" THEN [a EXCEPT !.inits = @ + 1]
      ELSE IF AuthNow >= stored.expiresAt
      THEN refreshAccessToken([a1 EXCEPT !.refreshToken = stored.refreshToken,
                                         !.isLoading = TRUE])
      ELSE Send([a1 EXCEPT !.accessToken = stored.accessToken,
                           !.refreshToken = stored.refreshToken,
                           !.expiresAt = stored.expiresAt,
                           !.isLoading = TRUE],
                Flow(a1, "initialize", "profile", stored.accessToken, stored.refreshToken))

\* the page after the modules are loaded, but for the auth store
InitPage ==
  /\ nav \in Navigators
  /\ audioElement = NullAudio
  /\ audioUnlocked = FALSE
  /\ keepAliveActive = FALSE
  /\ spotifyPlayer = 0
  /\ deviceId = 0
  /\ windowSpotify = FALSE
  /\ scriptsLoading = 0
  /\ scriptTags = 0
  /\ onSDKReady = 0
  /\ players = <<>>
  /\ call = IdleCall
  /\ ncalls = 0
  /\ playerStore = InitStore
  /\ hookCalls = <<>>
  /\ progressSubs = <<>>
  /\ scanner = InitScanner
  /\ race = NoRace
  /\ camera = InitCamera

Init == InitPage /\ auth = AuthStore(NoTokens, [state |-> 0, verifier |-> FALSE])


\* ------------------------------------------------------------ track resolver
\* the backend's catalogue: which tracks carry a preview clip
Catalogue(trackId) ==
  [id |-> trackId,
   preview_url |-> IF trackId = "trackA" THEN PreviewUrlOf(trackId) ELSE NoUrl]

\* HTTP statuses of a response; -1 stands for a fetch that rejects (no response)
Statuses == {-1, 200, 401, 404, 500}

getTrack_lenient(status) ==
  IF status = 404 THEN "Track not found"
  ELSE IF status = 401 THEN "Authentication required"
  ELSE ""

getTrack_authOn403(status) ==
  IF status < 0 THEN "TypeError: Failed to fetch"
  ELSE IF status >= 200 /\ status <= 299 THEN ""
  ELSE IF status = 404 THEN "Track not found"
  ELSE IF status = 401 \/ status = 403 THEN "Authentication required"
  ELSE "Failed to fetch track"

\* api.ts getTrack: the error thrown for a response status, "" when response.ok
getTrack(status) ==
  IF status < 0 THEN "TypeError: Failed to fetch"
  ELSE IF status >= 200 /\ status <= 299 THEN ""
  ELSE IF status = 404 THEN "Track not found"
  ELSE IF status = 401 THEN "Authentication required"
  ELSE "Failed to fetch track"

\* --------------------------------------------------------------- playTrack
needsLogin_never(accessToken) == FALSE

\* player.ts:400  if (!accessToken)
needsLogin(accessToken) == accessToken = NoToken \/ accessToken = ""

\* player.ts:423
sdkResult_withFlag(track) == [type |-> "full", track |-> track, autoplayBlocked |-> FALSE]

sdkResult(track) == [type |-> "full", track |-> track]

\* player.ts:433
previewResult_blocked(track) == [type |-> "preview", track |-> track, autoplayBlocked |-> TRUE]

previewResult(track) == [type |-> "preview", track |-> track]

\* player.ts:436
blockedResult(track) == [type |-> "preview", track |-> track, autoplayBlocked |-> TRUE]

\* player.ts:445
connectResult(track) == [type |-> "full", track |-> track]

\* player.ts:169  if (!keepAliveActive) stopPreview()
shouldStopFirst_always(keepAlive) == TRUE

shouldStopFirst(keepAlive) == ~keepAlive

\* player.ts:482  finish(!element.paused)
timerVerdict_true(paused) == TRUE

timerVerdict(paused) == ~paused

\* player.ts:465  onPlaying = () => finish(true)
playingVerdict == TRUE

\* the call frame's locals volume and initTimer, and the device the pending
\* play-on-device request names, are dead once they have been used (or the
\* call has settled); they are dropped from the record
Drop(cl) == [cl EXCEPT !.volume = DefaultVolume, !.initTimer = FALSE, !.dev = 0]

SetLast(steps, r) == [steps EXCEPT ![Len(steps)].r = r]

Begin(cl, op) == [cl EXCEPT !.steps = Append(@, [op |-> op, r |-> "pending"])]

\* player.ts:442-444: strategy 3, the Connect API request is sent
StartRemote(cl) == [Drop(Begin(cl, "playWithConnectAPI")) EXCEPT !.pc = "remote"]

\* player.ts:189-195: what playPreview throws for an error caught in its try
playPreviewThrows(error) ==
  IF isAutoplayBlockedError(error) THEN AutoplayBlockedError
  ELSE [dom |-> FALSE, name |-> "Error", message |-> PreviewFailedMessage]

\* player.ts:434-440: playTrack's catch around playPreview
previewFallsThrough(thrown) == thrown.name # "AutoplayBlockedError"

PreviewFailed_rethrow(cl, error) ==
  IF previewFallsThrough(playPreviewThrows(error))
  THEN [cl EXCEPT !.pc = "done", !.steps = SetLast(@, "fail"),
                  !.result = Rejected(PreviewFailedMessage)]
  ELSE [cl EXCEPT !.pc = "done", !.steps = SetLast(@, "blocked"),
                  !.result = Resolved(blockedResult(cl.track))]

PreviewFailed(cl, error) ==
  IF previewFallsThrough(playPreviewThrows(error))
  THEN StartRemote([cl EXCEPT !.steps = SetLast(@, "fail")])
  ELSE [cl EXCEPT !.pc = "done", !.steps = SetLast(@, "blocked"),
                  !.result = Resolved(blockedResult(cl.track))]

PreviewStarted_noReturn(cl) ==
  [Begin([cl EXCEPT !.steps = SetLast(@, "ok")], "playWithConnectAPI") EXCEPT
     !.pc = "remote"]

\* player.ts:188 and 433: playback was detected
PreviewStarted(cl) ==
  [cl EXCEPT !.pc = "done", !.steps = SetLast(@, "ok"),
             !.result = Resolved(previewResult(cl.track))]

\* player.ts:165-182: playPreview up to the call of element.play()
playPreviewElement(a, keepAlive, previewUrl, volume) ==
  LET a0 == IF shouldStopFirst(keepAlive) THEN stopPreview(a) ELSE a
      e0 == ensureAudioElement(a0)
      e1 == [e0 EXCEPT !.loop = FALSE, !.muted = FALSE]
      e2 == ElSetSrc(e1, previewUrl)
      e3 == [e2 EXCEPT !.currentTime = 0, !.volume = volume]
  IN  ElLoad(e3)

\* player.ts:429-440: strategy 2 if the track has a preview, else strategy 3.
\* Sets call' and audioElement'.
AfterSdk(cl) ==
  IF cl.track.preview_url # NoUrl
  THEN \E allowed \in BOOLEAN :
         LET el == playPreviewElement(audioElement, keepAliveActive,
                                      cl.track.preview_url, cl.volume)
             c1 == [Drop(Begin(cl, "playPreview")) EXCEPT
                      !.kaAtEntry = keepAliveActive,
                      !.stopped   = shouldStopFirst(keepAliveActive)]
         IN  IF allowed
             THEN /\ audioElement' = ElPlay(el, "call")
                  /\ call' = [c1 EXCEPT !.pc = "playPending"]
             ELSE /\ audioElement' = el
                  /\ call' = PreviewFailed(c1, NotAllowedError)
  ELSE /\ audioElement' = audioElement
       /\ call' = StartRemote(cl)

\* player.ts:85-129 createPlayer, bound to the resolve/reject of call `init`
createPlayer(init) ==
  /\ players' = Append(players, [init |-> init, status |-> "connecting",
                                 playback |-> "none"])
  /\ spotifyPlayer' = Len(players) + 1

\* player.ts:134-160 playWithSDK up to its fetch; sets call' and audioElement'
PlayWithSDK(cl, dev) ==
  IF dev = 0
  THEN AfterSdk([Begin(cl, "playWithSDK") EXCEPT !.steps = SetLast(@, "fail")])
  ELSE /\ call' = [Begin(cl, "playWithSDK") EXCEPT !.pc = "sdkPlay", !.initTimer = FALSE,
                                                   !.dev = dev]
       /\ audioElement' = audioElement

\* player.ts:416-422: strategy 1 begins. Sets call', audioElement' and sdkVars'.
StartSdk(cl) ==
  IF deviceId = 0
  THEN /\ call' = [Begin(cl, "initializeSpotifyPlayer") EXCEPT
                     !.pc = "sdkInit", !.initTimer = ~windowSpotify]
       /\ audioElement' = audioElement
       /\ deviceId' = deviceId
       /\ IF windowSpotify
          THEN /\ createPlayer(cl.id)
               /\ UNCHANGED <<windowSpotify, scriptsLoading, scriptTags, onSDKReady>>
          ELSE /\ scriptsLoading' = scriptsLoading + 1
               /\ scriptTags' = scriptTags + 1
               /\ onSDKReady' = cl.id
               /\ UNCHANGED <<windowSpotify, players, spotifyPlayer>>
  ELSE /\ PlayWithSDK(cl, deviceId)
       /\ UNCHANGED sdkVars

\* player.ts:391-404 (and :409, the metadata request is sent)
PlayTrack(trackId, accessToken, volume) ==
  /\ call.pc \in {"idle", "done"}
  /\ ncalls < MaxCalls
  /\ ncalls' = ncalls + 1
  /\ LET cl == [IdleCall EXCEPT !.id = ncalls + 1, !.fn = "playTrack", !.trackId = trackId,
                                !.token = accessToken, !.volume = volume]
     IN  call' = IF needsLogin(accessToken)
                 THEN [Drop(cl) EXCEPT !.pc = "done", !.result = Rejected(LoginMessage)]
                 ELSE [cl EXCEPT !.pc = "meta", !.meta = "pending"]
  /\ race' = NoRace   \* the call before has returned: its detector is decided and detached
  /\ UNCHANGED <<nav, auth, camera, progressSubs, hookCalls, playerStore, scanner, audioVars, sdkVars>>

\* player.ts:406-427: the metadata response arrives
MetadataResponse(status) ==
  /\ call.pc = "meta"
  /\ IF getTrack(status) # ""
     THEN /\ call' = [Drop(call) EXCEPT !.pc = "done", !.meta = "fail", !.status = status,
                                  !.result = Rejected(MetadataMessage)]
          /\ UNCHANGED <<audioVars, sdkVars>>
     ELSE LET cl == [call EXCEPT !.meta = "ok", !.status = status,
                                 !.track = Catalogue(call.trackId)]
          IN  IF ~isIOSDevice(nav)
              THEN StartSdk(cl) /\ UNCHANGED <<audioUnlocked, keepAliveActive>>
              ELSE AfterSdk(cl) /\ UNCHANGED <<audioUnlocked, keepAliveActive, sdkVars>>
  /\ UNCHANGED <<nav, auth, camera, race, progressSubs, hookCalls, playerStore, scanner, ncalls>>


\* ------------------------------------------------------ SDK session events
\* the SDK script has run: window.Spotify is defined and the script invokes
\* window.onSpotifyWebPlaybackSDKReady (player.ts:74-76)
ScriptLoaded ==
  /\ scriptsLoading > 0
  /\ scriptsLoading' = scriptsLoading - 1
  /\ windowSpotify' = TRUE
  /\ IF onSDKReady # 0
     THEN createPlayer(onSDKReady)
     ELSE UNCHANGED <<players, spotifyPlayer>>
  /\ UNCHANGED <<nav, auth, camera, race, progressSubs, hookCalls, playerStore, scanner, audioVars, deviceId, scriptTags, onSDKReady, call, ncalls>>

\* the call's initializeSpotifyPlayer promise is the one settled by events of
\* a player that createPlayer bound to call `init`
Awaited(init) == call.pc = "sdkInit" /\ call.id = init

\* player.ts:79-81: the 10 s timer rejects; playTrack catches (424) and goes on
InitTimeout ==
  /\ call.pc = "sdkInit"
  /\ call.initTimer
  /\ AfterSdk([call EXCEPT !.steps = SetLast(@, "fail")])
  /\ UNCHANGED <<nav, auth, camera, race, progressSubs, hookCalls, playerStore, scanner, audioUnlocked, keepAliveActive, sdkVars, ncalls>>

\* player.ts:116-120: 'ready' listener, then playTrack continues at 422
PlayerReady(p) ==
  /\ players[p].status = "connecting"
  /\ players' = [players EXCEPT ![p].status = "ready"]
  /\ deviceId' = p
  /\ IF Awaited(players[p].init)
     THEN PlayWithSDK([call EXCEPT !.steps = SetLast(@, "ok")], deviceId')
     ELSE UNCHANGED <<call, audioElement>>
  /\ UNCHANGED <<nav, auth, camera, race, progressSubs, hookCalls, playerStore, scanner, audioUnlocked, keepAliveActive, spotifyPlayer, windowSpotify,
                 scriptsLoading, scriptTags, onSDKReady, ncalls>>

PlayerError_setsDevice(p) ==
  /\ players[p].status = "connecting"
  /\ players' = [players EXCEPT ![p].status = "error"]
  /\ deviceId' = p
  /\ IF Awaited(players[p].init)
     THEN AfterSdk([call EXCEPT !.steps = SetLast(@, "fail")])
     ELSE UNCHANGED <<call, audioElement>>
  /\ UNCHANGED <<nav, auth, camera, race, progressSubs, hookCalls, playerStore, scanner, audioUnlocked, keepAliveActive, spotifyPlayer, windowSpotify,
                 scriptsLoading, scriptTags, onSDKReady, ncalls>>

\* player.ts:99-109: initialization_error / authentication_error / account_error
PlayerError(p) ==
  /\ players[p].status = "connecting"
  /\ players' = [players EXCEPT ![p].status = "error"]
  /\ IF Awaited(players[p].init)
     THEN AfterSdk([call EXCEPT !.steps = SetLast(@, "fail")])
     ELSE UNCHANGED <<call, audioElement>>
  /\ UNCHANGED <<nav, auth, camera, race, progressSubs, hookCalls, playerStore, scanner, audioUnlocked, keepAliveActive, spotifyPlayer, deviceId, windowSpotify,
                 scriptsLoading, scriptTags, onSDKReady, ncalls>>

\* the Spotify account plays on one device at a time: device d starts the
\* track and a device that was playing is paused
DevicePlays(ps, d) ==
  [p \in DOMAIN ps |->
     IF p = d THEN [ps[p] EXCEPT !.playback = "playing"]
     ELSE IF ps[p].playback = "playing" THEN [ps[p] EXCEPT !.playback = "paused"]
     ELSE ps[p]]

\* Spotify.Player.pause() / resume() (player.ts:526, 537, 549)
SdkPause(ps, p) ==
  IF p # 0 /\ ps[p].playback = "playing" THEN [ps EXCEPT ![p].playback = "paused"] ELSE ps

SdkResume(ps, p) ==
  IF p # 0 /\ ps[p].playback = "paused" THEN DevicePlays(ps, p) ELSE ps

\* player.ts:156-159 and 423-426: the play-on-device response arrives; the
\* request succeeds only for a device that is still connected
SdkPlayResponse(ok) ==
  /\ call.pc = "sdkPlay"
  /\ ok => players[call.dev].status = "ready"
  /\ IF ok
     THEN /\ call' = [Drop(call) EXCEPT !.pc = "done", !.steps = SetLast(@, "ok"),
                                  !.result = Resolved(sdkResult(call.track))]
          /\ players' = DevicePlays(players, call.dev)
          /\ UNCHANGED audioElement
     ELSE /\ AfterSdk([call EXCEPT !.steps = SetLast(@, "fail")])
          /\ UNCHANGED players
  /\ UNCHANGED <<nav, auth, camera, race, progressSubs, hookCalls, playerStore, scanner, audioUnlocked, keepAliveActive, spotifyPlayer, deviceId,
                 windowSpotify, scriptsLoading, scriptTags, onSDKReady, ncalls>>

\* player.ts:379-382 and 445-452: the Connect API response arrives
RemoteSettled_swallow(cl, ok) ==
  [cl EXCEPT !.pc = "done", !.steps = SetLast(@, IF ok THEN "ok" ELSE "fail"),
             !.result = Resolved(connectResult(cl.track))]

RemoteSettled(cl, ok) ==
  IF ok
  THEN [cl EXCEPT !.pc = "done", !.steps = SetLast(@, "ok"),
                  !.result = Resolved(connectResult(cl.track))]
  ELSE [cl EXCEPT !.pc = "done", !.steps = SetLast(@, "fail"),
                  !.result = Rejected(TerminalMessage)]

RemoteResponse(ok) ==
  /\ call.pc = "remote"
  /\ call' = RemoteSettled(call, ok)
  /\ UNCHANGED <<nav, auth, camera, race, progressSubs, hookCalls, playerStore, scanner, audioVars, sdkVars, ncalls>>

\* ------------------------------------------------- play() promise settles
PlayPromiseResolved_kaOnly ==
  /\ audioElement.pending # "none"
  /\ LET a == [audioElement EXCEPT !.pending = "none"]
     IN  CASE audioElement.pending = "call" ->
                /\ audioElement' = a
                /\ call' = [call EXCEPT !.pc = "waitStart"]
                /\ race' = waitForPlaybackStart
                /\ UNCHANGED <<audioUnlocked, keepAliveActive>>
           [] audioElement.pending = "ka" ->
                /\ audioElement' = a
                /\ keepAliveActive' = TRUE
                /\ UNCHANGED <<call, race, audioUnlocked>>
           [] audioElement.pending = "unlock" ->
                /\ audioElement' = [ElPause(a) EXCEPT !.currentTime = 0]
                /\ audioUnlocked' = TRUE
                /\ UNCHANGED <<call, race, keepAliveActive>>
  /\ UNCHANGED <<nav, auth, camera, progressSubs, hookCalls, playerStore, scanner, sdkVars, ncalls>>

\* playback has begun: the pending play() promise resolves.
\*   call   -> player.ts:184 waitForPlaybackStart registers listeners and timer
\*   ka     -> player.ts:248-249
\*   unlock -> player.ts:226-228
PlayPromiseResolved ==
  /\ audioElement.pending # "none"
  /\ LET a == [audioElement EXCEPT !.pending = "none"]
     IN  CASE audioElement.pending = "call" ->
                /\ audioElement' = a
                /\ call' = [call EXCEPT !.pc = "waitStart"]
                /\ race' = waitForPlaybackStart
                /\ UNCHANGED <<audioUnlocked, keepAliveActive>>
           [] audioElement.pending = "ka" ->
                /\ audioElement' = a
                /\ keepAliveActive' = TRUE
                /\ audioUnlocked' = TRUE
                /\ UNCHANGED <<call, race>>
           [] audioElement.pending = "unlock" ->
                /\ audioElement' = [ElPause(a) EXCEPT !.currentTime = 0]
                /\ audioUnlocked' = TRUE
                /\ UNCHANGED <<call, race, keepAliveActive>>
  /\ UNCHANGED <<nav, auth, camera, progressSubs, hookCalls, playerStore, scanner, sdkVars, ncalls>>

\* the browser rejects the pending play() promise (policy or unusable source)
PlayPromiseRejected(error) ==
  /\ audioElement.pending # "none"
  /\ audioElement' = [audioElement EXCEPT
                        !.pending = "none",
                        !.paused = IF error = NotAllowedError THEN TRUE ELSE @,
                        !.error = (error = NotSupportedError)]
  /\ call' = IF audioElement.pending = "call" THEN PreviewFailed(call, error) ELSE call
  /\ UNCHANGED <<nav, auth, camera, race, progressSubs, hookCalls, playerStore, scanner, audioUnlocked, keepAliveActive, sdkVars, ncalls>>

\* ------------------------------------------------- waitForPlaybackStart race
\* playPreview after the race has resolved: 185-188 / 189-192 and 433 / 436
Finish(started, why) ==
  /\ call' = IF started
             THEN [PreviewStarted(call) EXCEPT !.signal = why]
             ELSE [PreviewFailed(call, AutoplayBlockedError) EXCEPT !.signal = why]
  /\ keepAliveActive' = IF started THEN FALSE ELSE keepAliveActive

\* a handler of the detector, or its timer, calls finish(started); playPreview
\* goes on only when this call resolved the promise
RaceStep(r0, started, why) ==
  LET r == finish(r0, started)
  IN  /\ race' = r
      /\ IF r.resolved # r0.resolved
         THEN Finish(started, why)
         ELSE UNCHANGED <<call, keepAliveActive>>

\* 'playing' fires on the element while the detector listens
OnPlaying ==
  /\ "playing" \in race.listeners
  /\ ~audioElement.paused
  /\ RaceStep(race, playingVerdict, "playing")
  /\ UNCHANGED <<nav, auth, camera, progressSubs, hookCalls, playerStore, scanner, audioElement, audioUnlocked, sdkVars, ncalls>>

\* 'pause' fires on the element while the detector listens (player.ts:467-469)
OnPause ==
  /\ "pause" \in race.listeners
  /\ audioElement.paused
  /\ RaceStep(race, FALSE, "pause")
  /\ UNCHANGED <<nav, auth, camera, progressSubs, hookCalls, playerStore, scanner, audioElement, audioUnlocked, sdkVars, ncalls>>

\* player.ts:481-483: the 300 ms timer fires. It is never cancelled, so its
\* callback also runs after the race was decided; finish then returns at once
StartTimer ==
  /\ race.armed
  /\ RaceStep(race, timerVerdict(audioElement.paused),
              IF audioElement.paused THEN "timerPaused" ELSE "timerPlaying")
  /\ UNCHANGED <<nav, auth, camera, progressSubs, hookCalls, playerStore, scanner, audioElement, audioUnlocked, sdkVars, ncalls>>

\* player.ts:342-346: 'timeupdate' runs the handler of every subscription
\* whose listener is on the element
Deliver(subs) ==
  [k \in DOMAIN subs |->
     IF subs[k].listening
     THEN [subs[k] EXCEPT !.heard = TRUE, !.late = @ \/ subs[k].disposals > 0]
     ELSE subs[k]]

\* the playback position advances ('timeupdate'); at the clip's end the
\* element loops or pauses. The detector's onTimeUpdate is player.ts:466.
Tick ==
  /\ audioElement.exists /\ ~audioElement.paused /\ ~audioElement.error
  /\ audioElement.pending = "none" /\ audioElement.src # ""
  /\ audioElement' =
       IF audioElement.currentTime < MaxTime
       THEN [audioElement EXCEPT !.currentTime = @ + 1]
       ELSE IF audioElement.loop THEN [audioElement EXCEPT !.currentTime = 0]
       ELSE [audioElement EXCEPT !.paused = TRUE]
  /\ IF "timeupdate" \in race.listeners
     THEN RaceStep(race, TRUE, "timeupdate")
     ELSE UNCHANGED <<call, keepAliveActive, race>>
  /\ progressSubs' = Deliver(progressSubs)
  /\ UNCHANGED <<nav, auth, camera, hookCalls, playerStore, scanner, audioUnlocked, sdkVars, ncalls>>


\* ------------------------------------------- operations called from the UI
\* a pause or load issued by other code rejects the call's pending play()
\* promise with AbortError; playPreview's catch (189-195) runs at once
Interrupted(a) ==
  IF audioElement.pending = "call" /\ a.pending # "call"
  THEN PreviewFailed(call, AbortError)
  ELSE call

\* player.ts:217-232 unlockAudio up to its await
UnlockAudio(allowed) ==
  /\ ~audioUnlocked
  /\ LET e0 == ElSetSrc(ensureAudioElement(audioElement), SILENT_AUDIO_SRC)
         e1 == [e0 EXCEPT !.volume = 0]
         e2 == IF allowed THEN ElPlay(e1, "unlock") ELSE e1
     IN  /\ audioElement' = e2
         /\ call' = Interrupted(e2)
  /\ UNCHANGED <<nav, auth, camera, race, progressSubs, hookCalls, playerStore, scanner, audioUnlocked, keepAliveActive, sdkVars, ncalls>>

\* player.ts:238-253 startAutoplayKeepAlive up to its await
StartAutoplayKeepAlive(allowed) ==
  /\ ~keepAliveActive
  /\ LET e0 == ElSetSrc(ensureAudioElement(audioElement), SILENT_AUDIO_SRC)
         e1 == [e0 EXCEPT !.loop = TRUE, !.muted = TRUE, !.volume = 0]
         e2 == IF allowed THEN ElPlay(e1, "ka") ELSE e1
     IN  /\ audioElement' = e2
         /\ call' = Interrupted(e2)
  /\ UNCHANGED <<nav, auth, camera, race, progressSubs, hookCalls, playerStore, scanner, audioUnlocked, keepAliveActive, sdkVars, ncalls>>

StopAutoplayKeepAlive_relock ==
  /\ keepAliveActive
  /\ keepAliveActive' = FALSE
  /\ audioUnlocked' = FALSE
  /\ LET e == IF audioElement.exists
              THEN [ElPause([audioElement EXCEPT !.loop = FALSE, !.muted = FALSE])
                      EXCEPT !.currentTime = 0]
              ELSE audioElement
     IN  /\ audioElement' = e
         /\ call' = Interrupted(e)
  /\ UNCHANGED <<nav, auth, camera, race, progressSubs, hookCalls, playerStore, scanner, sdkVars, ncalls>>

\* player.ts:265-274
StopAutoplayKeepAlive ==
  /\ keepAliveActive
  /\ keepAliveActive' = FALSE
  /\ LET e == IF audioElement.exists
              THEN [ElPause([audioElement EXCEPT !.loop = FALSE, !.muted = FALSE])
                      EXCEPT !.currentTime = 0]
              ELSE audioElement
     IN  /\ audioElement' = e
         /\ call' = Interrupted(e)
  /\ UNCHANGED <<nav, auth, camera, race, progressSubs, hookCalls, playerStore, scanner, audioUnlocked, sdkVars, ncalls>>

\* player.ts:524-530 pause(): the SDK device when a player object exists,
\* else the preview element; what it does to the preview element
pause(a, sp) == IF sp # 0 THEN a ELSE pausePreview(a)

PauseOp ==
  /\ LET e == pause(audioElement, spotifyPlayer)
     IN  /\ audioElement' = e
         /\ call' = Interrupted(e)
  /\ players' = SdkPause(players, spotifyPlayer)
  /\ UNCHANGED <<nav, auth, camera, race, progressSubs, hookCalls, playerStore, scanner, audioUnlocked, keepAliveActive, spotifyPlayer, deviceId,
                 windowSpotify, scriptsLoading, scriptTags, onSDKReady, ncalls>>

\* player.ts:298-304 resumePreview
resumePreview(a, allowed) == IF a.exists /\ allowed THEN ElPlay(a, "none") ELSE a

\* player.ts:535-541 resume(): what it does to the preview element
resume(a, sp, allowed) == IF sp # 0 THEN a ELSE resumePreview(a, allowed)

ResumeOp(allowed) ==
  /\ audioElement' = resume(audioElement, spotifyPlayer, allowed)
  /\ players' = SdkResume(players, spotifyPlayer)
  /\ UNCHANGED <<nav, auth, camera, race, progressSubs, hookCalls, playerStore, scanner, audioUnlocked, keepAliveActive, spotifyPlayer, deviceId,
                 windowSpotify, scriptsLoading, scriptTags, onSDKReady, call, ncalls>>

\* player.ts:546-551 stopPlayback
StopPlayback ==
  /\ LET e == stopPreview(audioElement)
     IN  /\ audioElement' = e
         /\ call' = Interrupted(e)
  /\ players' = SdkPause(players, spotifyPlayer)
  /\ UNCHANGED <<nav, auth, camera, race, progressSubs, hookCalls, playerStore, scanner, audioUnlocked, keepAliveActive, spotifyPlayer, deviceId,
                 windowSpotify, scriptsLoading, scriptTags, onSDKReady, ncalls>>

\* player.ts:556-563 disconnectPlayer: the module state it leaves
disconnectPlayer(sp, dev, ps, a) ==
  IF sp # 0
  THEN [spotifyPlayer |-> 0, deviceId |-> 0,
        players |-> [ps EXCEPT ![sp].status = "disconnected", ![sp].playback = "none"],
        audioElement |-> stopPreview(a)]
  ELSE [spotifyPlayer |-> sp, deviceId |-> dev, players |-> ps,
        audioElement |-> stopPreview(a)]

DisconnectPlayer ==
  /\ LET d == disconnectPlayer(spotifyPlayer, deviceId, players, audioElement)
     IN  /\ players' = d.players
         /\ spotifyPlayer' = d.spotifyPlayer
         /\ deviceId' = d.deviceId
         /\ audioElement' = d.audioElement
         /\ call' = Interrupted(d.audioElement)
  /\ UNCHANGED <<nav, auth, camera, race, progressSubs, hookCalls, playerStore, scanner, audioUnlocked, keepAliveActive, windowSpotify, scriptsLoading,
                 scriptTags, onSDKReady, ncalls>>

\* ------------------------------------------------------------ specification
Next ==
  \/ \E t \in TrackIds, tok \in Tokens, v \in Volumes : PlayTrack(t, tok, v)
  \/ \E status \in Statuses : MetadataResponse(status)
  \/ ScriptLoaded
  \/ InitTimeout
  \/ \E p \in DOMAIN players : PlayerReady(p)
  \/ \E p \in DOMAIN players : PlayerError(p)
  \/ \E ok \in BOOLEAN : SdkPlayResponse(ok)
  \/ \E ok \in BOOLEAN : RemoteResponse(ok)
  \/ PlayPromiseResolved
  \/ \E error \in {NotAllowedError, NotSupportedError} : PlayPromiseRejected(error)
  \/ OnPlaying
  \/ OnPause
  \/ StartTimer
  \/ Tick
  \/ \E allowed \in BOOLEAN : UnlockAudio(allowed)
  \/ \E allowed \in BOOLEAN : StartAutoplayKeepAlive(allowed)
  \/ StopAutoplayKeepAlive
  \/ PauseOp
  \/ \E allowed \in BOOLEAN : ResumeOp(allowed)
  \/ StopPlayback
  \/ DisconnectPlayer

Spec == Init /\ [][Next]_vars


\* ------------------------------------------------ loadTrack and the UI hook
NoPreviewMessage == "This track has no preview available. Please log in for full playback."

preparePreview_andPlay(a, previewUrl, volume) ==
  LET e0 == ensureAudioElement(stopPreview(a))
      e1 == ElSetSrc(e0, previewUrl)
      e2 == [e1 EXCEPT !.currentTime = 0, !.volume = volume]
  IN  ElPlay(ElLoad(e2), "none")

\* player.ts:201-211 preparePreview
preparePreview(a, previewUrl, volume) ==
  LET e0 == ensureAudioElement(stopPreview(a))
      e1 == ElSetSrc(e0, previewUrl)
      e2 == [e1 EXCEPT !.currentTime = 0, !.volume = volume]
  IN  ElLoad(e2)

\* player.ts:491-507 loadTrack up to its await (the metadata request is sent)
LoadTrack(trackId, accessToken, volume) ==
  /\ call.pc \in {"idle", "done"}
  /\ ncalls < MaxCalls
  /\ ncalls' = ncalls + 1
  /\ LET cl == [IdleCall EXCEPT !.id = ncalls + 1, !.fn = "loadTrack", !.trackId = trackId,
                                !.token = accessToken, !.volume = volume]
     IN  call' = IF needsLogin(accessToken)
                 THEN [Drop(cl) EXCEPT !.pc = "done", !.result = Rejected(LoginMessage)]
                 ELSE [cl EXCEPT !.pc = "loadMeta", !.meta = "pending"]
  /\ UNCHANGED <<nav, auth, camera, race, progressSubs, hookCalls, playerStore, scanner, audioVars, sdkVars>>

\* player.ts:507-518: the metadata response arrives; an error of getTrack
\* leaves loadTrack as it is
LoadMetadataResponse(status) ==
  /\ call.pc = "loadMeta"
  /\ LET cl    == [Drop(call) EXCEPT !.pc = "done", !.status = status]
         track == Catalogue(call.trackId)
     IN  IF getTrack(status) # ""
         THEN /\ call' = [cl EXCEPT !.meta = "fail", !.result = Rejected(getTrack(status))]
              /\ UNCHANGED audioElement
         ELSE IF track.preview_url # NoUrl
         THEN /\ audioElement' = preparePreview(audioElement, track.preview_url, call.volume)
              /\ call' = [cl EXCEPT !.meta = "ok", !.track = track,
                                    !.result = Resolved([type |-> "preview", track |-> track])]
         ELSE /\ call' = [cl EXCEPT !.meta = "ok", !.track = track,
                                    !.result = Rejected(NoPreviewMessage)]
              /\ UNCHANGED audioElement
  /\ UNCHANGED <<nav, auth, camera, race, progressSubs, hookCalls, playerStore, scanner, audioUnlocked, keepAliveActive, sdkVars, ncalls>>

\* statuses the metadata endpoint may answer loadTrack's request with
BackendStatuses == Statuses \cup {204, 299, 300, 403}

\* values the volume slider (or any caller of changeVolume) may pass
VolumeInputs == {-50, 0, 30, 100, 150}

\* README.md:384-388 usePlayerStore.setVolume: the value the store keeps
setVolume(volume) ==
  LET min == IF volume < 100 THEN volume ELSE 100
  IN  IF min > 0 THEN min ELSE 0

\* player.ts:309-313 setPreviewVolume. Assigning HTMLMediaElement.volume a
\* value outside 0.0..1.0 throws IndexSizeError and keeps the old volume.
setPreviewVolume(a, volume) ==
  IF a.exists /\ volume >= 0 /\ volume <= 100 THEN [a EXCEPT !.volume = volume] ELSE a

\* types.ts:144-150 changeVolume
ChangeVolume(newVolume) ==
  /\ playerStore' = [playerStore EXCEPT !.volume = setVolume(newVolume)]
  /\ audioElement' = setPreviewVolume(audioElement, newVolume)
  /\ UNCHANGED <<nav, auth, camera, race, progressSubs, hookCalls, scanner, audioUnlocked, keepAliveActive, sdkVars, call, ncalls>>

NextUI ==
  \/ \E t \in TrackIds, tok \in Tokens, v \in Volumes : LoadTrack(t, tok, v)
  \/ \E status \in BackendStatuses : LoadMetadataResponse(status)
  \/ \E n \in VolumeInputs : ChangeVolume(n)
  \/ PlayPromiseResolved
  \/ \E error \in {NotAllowedError, NotSupportedError} : PlayPromiseRejected(error)
  \/ Tick
  \/ \E allowed \in BOOLEAN : UnlockAudio(allowed)
  \/ \E allowed \in BOOLEAN : StartAutoplayKeepAlive(allowed)
  \/ StopAutoplayKeepAlive
  \/ PauseOp
  \/ \E allowed \in BOOLEAN : ResumeOp(allowed)
  \/ StopPlayback
  \/ DisconnectPlayer

SpecUI == Init /\ [][NextUI]_vars


\* ---------------------------------------------------------- the QR scanner
\* A decoded QR text is what stands before the identifier (prefix) and the
\* characters after it (body); "a" stands for a character of [a-zA-Z0-9] and
\* "?" for any other character.
Run(n) == [i \in 1..n |-> "a"]

IdLengths == {0, 3, 21, 22, 23}

QRBodies == {Run(n) : n \in IdLengths} \cup {Run(22) \o <<"?">> \o Run(2)}

QRPrefixes ==
  {"", "https://open.spotify.com/track/", "spotify:track:", "https://spotify.link/",
   "https://example.com/"}

QRTexts == {[prefix |-> "", body |-> <<>>]}
             \cup {[prefix |-> p, body |-> b] : p \in QRPrefixes \ {""}, b \in QRBodies}

\* parser.ts:10-17
SPOTIFY_PATTERNS ==
  <<"https://open.spotify.com/track/", "spotify:track:", "https://spotify.link/">>

\* the capture group ([a-zA-Z0-9]+): the longest run of such characters at the
\* start of the body
RECURSIVE Capture(_)
Capture(body) ==
  IF body = <<>> \/ Head(body) # "a" THEN <<>>
  ELSE <<Head(body)>> \o Capture(Tail(body))

\* qrCodeData.match(pattern) with a non-empty match[1]
Matches(text, i) == text.prefix = SPOTIFY_PATTERNS[i] /\ Capture(text.body) # <<>>

\* parser.ts:24-51 parseSpotifyUrl
parseSpotifyUrl(qrCodeData) ==
  IF qrCodeData.prefix = "" /\ qrCodeData.body = <<>>
  THEN [isValid |-> FALSE, trackId |-> <<>>, error |-> "Invalid QR code data"]
  ELSE IF \E i \in DOMAIN SPOTIFY_PATTERNS : Matches(qrCodeData, i)
  THEN [isValid |-> TRUE, trackId |-> Capture(qrCodeData.body), error |-> "null"]
  ELSE [isValid |-> FALSE, trackId |-> <<>>,
        error |-> "QR code does not contain a Spotify track link"]

\* parser.ts:58-60 isValidTrackId
isValidTrackId(trackId) == Len(trackId) = 22 /\ \A i \in DOMAIN trackId : trackId[i] = "a"

\* Date.now() advances
ClockAdvance ==
  /\ scanner.now < PageLoadTime + MaxTicks * ClockStep
  /\ scanner' = [scanner EXCEPT !.now = @ + ClockStep]
  /\ UNCHANGED <<nav, auth, camera, race, progressSubs, hookCalls, playerStore, audioVars, sdkVars, call, ncalls>>

\* useQRScanner.ts:33-60 handleScanSuccess; onScanSuccess is the App's
\* handleScanSuccess (part_005:39-46), which calls play(trackId)
HandleScanSuccess(decodedText) ==
  /\ LET parseResult == parseSpotifyUrl(decodedText)
         sc == [scanner EXCEPT !.lastScanTime = scanner.now]
     IN  scanner' =
           IF scanner.now - scanner.lastScanTime < SCAN_COOLDOWN
           THEN scanner
           ELSE IF parseResult.isValid /\ parseResult.trackId # <<>>
           THEN [sc EXCEPT !.lastScannedCode = decodedText,
                           !.lastTrackId = parseResult.trackId,
                           !.error = "null",
                           !.passed = Append(@, [trackId |-> parseResult.trackId,
                                                 text |-> decodedText,
                                                 at |-> scanner.now])]
           ELSE [sc EXCEPT !.error = parseResult.error]
  /\ UNCHANGED <<nav, auth, camera, race, progressSubs, hookCalls, playerStore, audioVars, sdkVars, call, ncalls>>

NextScan ==
  \/ ClockAdvance
  \/ \E text \in QRTexts : HandleScanSuccess(text)

SpecScan == Init /\ [][NextScan]_vars

\* ------------------------------------------------ scanner component lifecycle
CameraDeniedMessage == "Camera permission denied. Please allow camera access to scan QR codes."

\* useQRScanner.ts:72-132 start(elementId) up to its await (or its return)
start(c) ==
  IF c.isStarting \/ c.isStopping THEN c
  ELSE IF c.state = "SCANNING" THEN [c EXCEPT !.scannerRef = TRUE, !.isStarting = FALSE]
  ELSE [c EXCEPT !.scannerRef = TRUE, !.isStarting = TRUE, !.startPending = TRUE]

\* useQRScanner.ts:135-165 stop() up to its await (or its return)
stop(c) ==
  IF c.isStopping \/ c.isStarting THEN c
  ELSE IF c.scannerRef /\ c.state = "SCANNING"
  THEN [c EXCEPT !.isStopping = TRUE, !.stopPending = TRUE]
  ELSE [c EXCEPT !.isScanning = FALSE, !.isCameraReady = FALSE, !.isStopping = FALSE]

\* useQRScanner.ts:168-193 the hook's unmount cleanup
cleanup(c) ==
  IF c.scannerRef /\ ~c.isStopping /\ c.state = "SCANNING"
  THEN [c EXCEPT !.cleanupPending = TRUE]
  ELSE c

\* the operations of the scanner instance have all settled
Settled(c) == ~c.startPending /\ ~c.stopPending /\ ~c.cleanupPending

\* part_000:13-21 QRScanner mounts: a new useQRScanner instance (fresh refs,
\* useQRScanner.ts:16-19) and the mount effect's start(). A remount is taken
\* up once the instance before has settled with its camera stopped.
Mount ==
  /\ ~camera.mounted /\ camera.mounts < MaxMounts
  /\ Settled(camera) /\ camera.state = "NOT_STARTED"
  /\ LET c == [camera EXCEPT !.mounted = TRUE, !.mounts = @ + 1, !.scannerRef = FALSE,
                             !.isStarting = FALSE, !.isStopping = FALSE]
     IN  camera' = start(c)
  /\ scanner' = [scanner EXCEPT !.lastScanTime = 0, !.error = "null"]
  /\ UNCHANGED <<nav, auth, race, progressSubs, hookCalls, playerStore, audioVars, sdkVars, call, ncalls>>

\* part_000:28-30 handleStartScanning, the 'Try Again' button (part_000:73-78)
TryAgain ==
  /\ camera.mounted /\ scanner.error # "null" /\ ~camera.isScanning
  /\ camera' = start(camera)
  /\ scanner' = IF camera.isStarting \/ camera.isStopping THEN scanner
                ELSE [scanner EXCEPT !.error = "null"]
  /\ UNCHANGED <<nav, auth, race, progressSubs, hookCalls, playerStore, audioVars, sdkVars, call, ncalls>>

\* useQRScanner.ts:99-128: the library's start() settles; granted is whether
\* the camera could be opened
StartSettles(granted) ==
  /\ camera.startPending
  /\ camera' = IF granted
               THEN [camera EXCEPT !.startPending = FALSE, !.isStarting = FALSE,
                                   !.state = "SCANNING",
                                   !.isScanning = TRUE, !.isCameraReady = TRUE]
               ELSE [camera EXCEPT !.startPending = FALSE, !.isStarting = FALSE]
  /\ scanner' = [scanner EXCEPT !.error = IF granted THEN "null" ELSE CameraDeniedMessage]
  /\ UNCHANGED <<nav, auth, race, progressSubs, hookCalls, playerStore, audioVars, sdkVars, call, ncalls>>

\* the component unmounts: the hook's cleanup (useQRScanner.ts:168-193), then
\* the component's cleanup calling stop() (part_000:22-24)
Unmount ==
  /\ camera.mounted
  /\ camera' = stop(cleanup([camera EXCEPT !.mounted = FALSE]))
  /\ UNCHANGED <<nav, auth, race, progressSubs, hookCalls, playerStore, scanner, audioVars, sdkVars, call, ncalls>>

\* useQRScanner.ts:180-185: the library stop() issued by the cleanup resolves
CleanupStopSettles ==
  /\ camera.cleanupPending
  /\ camera' = [camera EXCEPT !.cleanupPending = FALSE, !.state = "NOT_STARTED",
                              !.isScanning = FALSE, !.isCameraReady = FALSE]
  /\ UNCHANGED <<nav, auth, race, progressSubs, hookCalls, playerStore, scanner, audioVars, sdkVars, call, ncalls>>

\* useQRScanner.ts:153-164: the library stop() awaited by stop() settles. It
\* can reject only when the cleanup's stop() is already under way.
StopSettles(resolved) ==
  /\ camera.stopPending
  /\ ~resolved => camera.cleanupPending
  /\ camera' = IF resolved
               THEN [camera EXCEPT !.stopPending = FALSE, !.isStopping = FALSE,
                                   !.state = "NOT_STARTED",
                                   !.isScanning = FALSE, !.isCameraReady = FALSE]
               ELSE [camera EXCEPT !.stopPending = FALSE, !.isStopping = FALSE]
  /\ UNCHANGED <<nav, auth, race, progressSubs, hookCalls, playerStore, scanner, audioVars, sdkVars, call, ncalls>>

\* QR texts held in front of the camera
ScanSamples ==
  {[prefix |-> "spotify:track:", body |-> Run(22)],
   [prefix |-> "https://example.com/", body |-> Run(22)]}

\* the library decodes a QR text while the camera scans and calls the hook's
\* handleScanSuccess (useQRScanner.ts:99-107)
Decode(decodedText) ==
  /\ camera.state = "SCANNING"
  /\ HandleScanSuccess(decodedText)

NextCamera ==
  \/ Mount
  \/ TryAgain
  \/ \E granted \in BOOLEAN : StartSettles(granted)
  \/ Unmount
  \/ CleanupStopSettles
  \/ \E resolved \in BOOLEAN : StopSettles(resolved)
  \/ \E text \in ScanSamples : Decode(text)
  \/ ClockAdvance

SpecCamera == Init /\ [][NextCamera]_vars


\* ------------------------------------------------------ onPreviewProgress
\* player.ts:338-348 onPreviewProgress: without an element nothing is
\* registered and the disposer is empty. heard, late and disposals are
\* history: the callback has run, has run after its disposer was called, and
\* how often the disposer was called (counted up to 2).
Subscribe ==
  /\ Len(progressSubs) < MaxSubs
  /\ progressSubs' = Append(progressSubs,
                            [registered |-> audioElement.exists,
                             listening |-> audioElement.exists,
                             heard |-> FALSE, late |-> FALSE, disposals |-> 0])
  /\ UNCHANGED <<nav, auth, camera, race, hookCalls, playerStore, scanner, audioVars, sdkVars, call, ncalls>>

removeListener_all(subs, k) ==
  [j \in DOMAIN subs |-> [subs[j] EXCEPT !.listening = FALSE]]

\* player.ts:350-352: removeEventListener for this subscription's handler
removeListener(subs, k) == [subs EXCEPT ![k].listening = FALSE]

\* player.ts:349-353: the disposer of subscription k is called
Dispose(k) ==
  /\ LET counted == [progressSubs EXCEPT
                       ![k].disposals = IF @ < 2 THEN @ + 1 ELSE @]
     IN  progressSubs' = IF progressSubs[k].registered /\ audioElement.exists
                         THEN removeListener(counted, k)
                         ELSE counted
  /\ UNCHANGED <<nav, auth, camera, race, hookCalls, playerStore, scanner, audioVars, sdkVars, call, ncalls>>

NextProgress ==
  \/ Subscribe
  \/ \E k \in DOMAIN progressSubs : Dispose(k)
  \/ \E t \in TrackIds : LoadTrack(t, "tok", DefaultVolume)
  \/ LoadMetadataResponse(200)
  \/ \E allowed \in BOOLEAN : StartAutoplayKeepAlive(allowed)
  \/ StopAutoplayKeepAlive
  \/ PlayPromiseResolved
  \/ \E error \in {NotAllowedError, NotSupportedError} : PlayPromiseRejected(error)
  \/ \E allowed \in BOOLEAN : ResumeOp(allowed)
  \/ PauseOp
  \/ Tick

SpecProgress == Init /\ [][NextProgress]_vars


\* ------------------------------------------------- the UI hook's play()
\* README.md:364-412 usePlayerStore actions
setCurrentTrack(st, track) ==
  [st EXCEPT !.currentTrack = track, !.progress = 0, !.error = "null"]

setIsPlaying(st, playing) == [st EXCEPT !.isPlaying = playing]

setPlaybackType(st, type) == [st EXCEPT !.playbackType = type]

setError(st, error) == [st EXCEPT !.error = error, !.isLoading = FALSE]

setIsLoading(st, loading) == [st EXCEPT !.isLoading = loading]

clearError(st) == [st EXCEPT !.error = "null"]

reset(st) ==
  [st EXCEPT !.currentTrack = NoTrack, !.isPlaying = FALSE, !.playbackType = "null",
             !.progress = 0, !.error = "null", !.isLoading = FALSE]

\* how player.playTrack can settle for a call made with a credential
\* (player.ts:411, 423, 433, 436, 445, 449)
PlayOutcomes(trackId) ==
  LET track == Catalogue(trackId) IN
  {Resolved(sdkResult(track)), Resolved(connectResult(track)),
   Rejected(MetadataMessage), Rejected(TerminalMessage)}
    \cup (IF track.preview_url # NoUrl
          THEN {Resolved(previewResult(track)), Resolved(blockedResult(track))}
          ELSE {})

\* types.ts:93-96: playTrack resolved
playResolved(st, result) ==
  setIsLoading(
    setIsPlaying(setPlaybackType(setCurrentTrack(st, result.track), result.type), TRUE),
    FALSE)

\* types.ts:97-100: playTrack rejected
playRejected(st, message) == setIsLoading(setError(st, message), FALSE)

PlaySettled(st, outcome) ==
  IF outcome.st = "resolved" THEN playResolved(st, outcome.value)
  ELSE playRejected(st, outcome.message)

\* types.ts:86-91 play(trackId) up to its await; accessToken is the auth
\* store's token. Without a credential playTrack rejects at once (player.ts:400)
\* and the catch runs before any other task.
HookPlay(trackId, accessToken) ==
  /\ Len(hookCalls) < MaxCalls
  /\ LET st == clearError(setIsLoading(playerStore, TRUE))
         hc == [trackId |-> trackId, st |-> "pending", outcome |-> Pending,
                overlaps |-> \E i \in DOMAIN hookCalls : hookCalls[i].st = "pending"]
     IN  IF needsLogin(accessToken)
         THEN /\ hookCalls' = Append(hookCalls, [hc EXCEPT !.st = "settled",
                                                           !.outcome = Rejected(LoginMessage)])
              /\ playerStore' = playRejected(st, LoginMessage)
         ELSE /\ hookCalls' = Append(hookCalls, hc)
              /\ playerStore' = st
  /\ UNCHANGED <<nav, auth, camera, race, progressSubs, scanner, audioVars, sdkVars, call, ncalls>>

\* types.ts:91-100: the awaited playTrack of invocation i settles
PlaySettles(i, outcome) ==
  /\ hookCalls[i].st = "pending"
  /\ outcome \in PlayOutcomes(hookCalls[i].trackId)
  /\ hookCalls' = [hookCalls EXCEPT ![i].st = "settled", ![i].outcome = outcome]
  /\ playerStore' = PlaySettled(playerStore, outcome)
  /\ UNCHANGED <<nav, auth, camera, race, progressSubs, scanner, audioVars, sdkVars, call, ncalls>>

\* types.ts:116-123 pause()
HookPause ==
  /\ audioElement' = pause(audioElement, spotifyPlayer)
  /\ players' = SdkPause(players, spotifyPlayer)
  /\ playerStore' = setIsPlaying(playerStore, FALSE)
  /\ UNCHANGED <<nav, auth, camera, race, progressSubs, hookCalls, scanner, audioUnlocked, keepAliveActive, spotifyPlayer,
                 deviceId, windowSpotify, scriptsLoading, scriptTags, onSDKReady, call, ncalls>>

\* types.ts:126-135 resume()
HookResume(allowed) ==
  /\ audioElement' = resume(audioElement, spotifyPlayer, allowed)
  /\ players' = SdkResume(players, spotifyPlayer)
  /\ playerStore' = setIsPlaying(playerStore, TRUE)
  /\ UNCHANGED <<nav, auth, camera, race, progressSubs, hookCalls, scanner, audioUnlocked, keepAliveActive, spotifyPlayer,
                 deviceId, windowSpotify, scriptsLoading, scriptTags, onSDKReady, call, ncalls>>

\* types.ts:138-141 stop()
HookStop ==
  /\ audioElement' = stopPreview(audioElement)
  /\ players' = SdkPause(players, spotifyPlayer)
  /\ playerStore' = reset(playerStore)
  /\ UNCHANGED <<nav, auth, camera, race, progressSubs, hookCalls, scanner, audioUnlocked, keepAliveActive, spotifyPlayer,
                 deviceId, windowSpotify, scriptsLoading, scriptTags, onSDKReady, call, ncalls>>

NextHook ==
  \/ \E t \in TrackIds, tok \in Tokens : HookPlay(t, tok)
  \/ \E i \in DOMAIN hookCalls :
       \E o \in PlayOutcomes(hookCalls[i].trackId) : PlaySettles(i, o)
  \/ HookPause
  \/ \E allowed \in BOOLEAN : HookResume(allowed)
  \/ HookStop
  \/ \E n \in VolumeInputs : ChangeVolume(n)

SpecHook == Init /\ [][NextHook]_vars

\* ------------------------------------------- the UI hook's play over playTrack
\* types.ts:86-91 play(trackId) up to its await, with the orchestrator's
\* playTrack (player.ts:391-404) it calls: no volume argument is passed, so
\* playTrack's parameter takes its default (player.ts:394)
HookPlayTrack(trackId, accessToken) ==
  /\ call.pc \in {"idle", "done"}
  /\ \A i \in DOMAIN hookCalls : hookCalls[i].st = "settled"
  /\ ncalls < MaxCalls
  /\ ncalls' = ncalls + 1
  /\ LET cl == [IdleCall EXCEPT !.id = ncalls + 1, !.fn = "playTrack", !.trackId = trackId,
                                !.token = accessToken, !.volume = DefaultVolume]
         st == clearError(setIsLoading(playerStore, TRUE))
         hc == [trackId |-> trackId, st |-> "pending", outcome |-> Pending, overlaps |-> FALSE]
     IN  IF needsLogin(accessToken)
         THEN /\ call' = [Drop(cl) EXCEPT !.pc = "done", !.result = Rejected(LoginMessage)]
              /\ hookCalls' = Append(hookCalls, [hc EXCEPT !.st = "settled",
                                                           !.outcome = Rejected(LoginMessage)])
              /\ playerStore' = playRejected(st, LoginMessage)
         ELSE /\ call' = [cl EXCEPT !.pc = "meta", !.meta = "pending"]
              /\ hookCalls' = Append(hookCalls, hc)
              /\ playerStore' = st
  /\ race' = NoRace
  /\ UNCHANGED <<nav, auth, camera, progressSubs, scanner, audioVars, sdkVars>>

\* types.ts:93-100: play() goes on after its awaited playTrack has settled
HookPlayReturns ==
  /\ hookCalls # <<>> /\ hookCalls[Len(hookCalls)].st = "pending"
  /\ call.pc = "done"
  /\ hookCalls' = [hookCalls EXCEPT ![Len(hookCalls)].st = "settled",
                                    ![Len(hookCalls)].outcome = call.result]
  /\ playerStore' = PlaySettled(playerStore, call.result)
  /\ UNCHANGED <<nav, auth, camera, race, progressSubs, scanner, audioVars, sdkVars, call, ncalls>>

NextVolume ==
  \/ \E t \in TrackIds, tok \in Tokens : HookPlayTrack(t, tok)
  \/ HookPlayReturns
  \/ \E n \in VolumeInputs : ChangeVolume(n)
  \/ \E status \in Statuses : MetadataResponse(status)
  \/ ScriptLoaded
  \/ InitTimeout
  \/ \E p \in DOMAIN players : PlayerReady(p)
  \/ \E p \in DOMAIN players : PlayerError(p)
  \/ \E ok \in BOOLEAN : SdkPlayResponse(ok)
  \/ \E ok \in BOOLEAN : RemoteResponse(ok)
  \/ PlayPromiseResolved
  \/ \E error \in {NotAllowedError, NotSupportedError} : PlayPromiseRejected(error)
  \/ OnPlaying
  \/ StartTimer
  \/ Tick

SpecVolume == Init /\ [][NextVolume]_vars


\* --------------------------------------------------- the auth store: steps
\* The store's operations run up to their first request; each response is a
\* step of its own, and the operation that awaits it goes on from there.
Others ==
  UNCHANGED <<nav, camera, race, progressSubs, hookCalls, playerStore, scanner,
              audioVars, sdkVars, call, ncalls>>

Settle(a, f) == [a EXCEPT !.flows = @ \ {f}]

Await(a, f, pc, access) ==
  [a EXCEPT !.flows = (@ \ {f}) \cup {[f EXCEPT !.pc = pc, !.access = access]}]

\* api.ts:183-185 the mount effect of a component using useSpotifyAuth
Initialize ==
  /\ auth.inits < MaxInits
  /\ auth.nflows < MaxFlows
  /\ auth' = initialize(auth)
  /\ Others

\* part_005:21-36 the App's callback effect: once per page, for a URL with
\* code and state
HandleCallback(code, state) ==
  /\ ~auth.callbackProcessed
  /\ auth.nflows < MaxFlows
  /\ auth' = handleCallback([auth EXCEPT !.callbackProcessed = TRUE], code, state)
  /\ Others

\* LoginButton.tsx:8, 32 the Logout button, shown to a logged-in user
Logout ==
  /\ auth.isAuthenticated /\ auth.user # 0
  /\ auth' = logout(auth)
  /\ Others

\* authStore.ts:211-222 the one-minute timer, when the token is about to
\* expire
AutoRefresh ==
  /\ auth.isAuthenticated /\ auth.expiresAt # 0 /\ auth.refreshToken # 0
  /\ auth.nflows < MaxFlows
  /\ auth' = refreshAccessToken([auth EXCEPT !.loggedOut = FALSE])
  /\ Others

\* auth.ts:78-105 the token request settles; authStore.ts:102-114, 120-127
ExchangeSettles(f, ok) ==
  /\ f \in auth.flows /\ f.pc = "exchange"
  /\ auth' =
       IF ok
       THEN LET a1 == [auth EXCEPT !.sessionStorage = [state |-> 0, verifier |-> FALSE]]
                a2 == saveTokensToStorage(a1, SavedTokens(ExchangedAccessToken,
                                                         ExchangedRefreshToken,
                                                         AuthNow + ExpiresIn))
            IN  Await(a2, [f EXCEPT !.refresh = ExchangedRefreshToken], "profile",
                      ExchangedAccessToken)
       ELSE clearTokensFromStorage(Fail(Settle(auth, f), ExchangeFailedMessage))
  /\ Others

\* auth.ts:113-131 the refresh request settles; authStore.ts:142-153, 160-167
RefreshSettles(f, ok) ==
  /\ f \in auth.flows /\ f.pc = "refresh"
  /\ auth' =
       IF ok
       THEN Await(saveTokensToStorage(auth, SavedTokens(RefreshedAccessToken, f.refresh,
                                                        AuthNow + ExpiresIn)),
                  f, "profile", RefreshedAccessToken)
       ELSE logout(Fail(Settle(auth, f), RefreshFailedMessage))
  /\ Others

\* auth.ts:147-158 the profile request settles, for the operation awaiting
\* it: handleCallback (authStore.ts:112-127), refreshAccessToken
\* (authStore.ts:152-167) or initialize (authStore.ts:191-203)
ProfileSettles(f, ok) ==
  /\ f \in auth.flows /\ f.pc = "profile"
  /\ LET a == Settle(auth, f)
     IN  auth' =
           CASE f.fn = "handleCallback" ->
                  IF ok
                  THEN [a EXCEPT !.accessToken = f.access, !.refreshToken = f.refresh,
                                 !.expiresAt = AuthNow + ExpiresIn, !.user = UserProfile,
                                 !.isAuthenticated = TRUE, !.isLoading = FALSE]
                  ELSE clearTokensFromStorage(Fail(a, ProfileFailedMessage))
             [] f.fn = "refresh" ->
                  IF ok
                  THEN [a EXCEPT !.accessToken = f.access,
                                 !.expiresAt = AuthNow + ExpiresIn, !.user = UserProfile,
                                 !.isAuthenticated = TRUE, !.isLoading = FALSE]
                  ELSE logout(Fail(a, ProfileFailedMessage))
             [] OTHER ->
                  IF ok
                  THEN [a EXCEPT !.user = UserProfile, !.isAuthenticated = TRUE,
                                 !.isLoading = FALSE]
                  ELSE logout(a)
  /\ Others

\* the auth store opened on what the browser's storages hold
InitAuth ==
  /\ InitPage
  /\ \E localStorage \in LocalStorages, sessionStorage \in SessionStorages :
          auth = AuthStore(localStorage, sessionStorage)

NextAuth ==
  \/ Initialize
  \/ \E state \in CallbackStates : HandleCallback("code", state)
  \/ Logout
  \/ AutoRefresh
  \/ \E f \in auth.flows, ok \in BOOLEAN : ExchangeSettles(f, ok)
  \/ \E f \in auth.flows, ok \in BOOLEAN : RefreshSettles(f, ok)
  \/ \E f \in auth.flows, ok \in BOOLEAN : ProfileSettles(f, ok)

SpecAuth == InitAuth /\ [][NextAuth]_vars


\* ------------------------------------------------------------------ claims
Last(seq) == seq[Len(seq)]

HasOp(cl, op) == \E i \in DOMAIN cl.steps : cl.steps[i].op = op

\* position of an operation in the chain SDK (initialize, play), preview, remote
Rank(op) ==
  CASE op = "initializeSpotifyPlayer" -> 1
    [] op = "playWithSDK"             -> 2
    [] op = "playPreview"             -> 3
    [] op = "playWithConnectAPI"      -> 4

NoCredential(cl) == cl.id > 0 /\ cl.token \in {"null", ""}

GestureRestrictive == nav.userAgent = "iPhone" \/ nav.maxTouchPoints = 5

\* the step is one taken by the call in flight (not the start of a new call)
CallAdvances == call'.id = call.id /\ call' # call

C2_StrategiesStrictlyOrdered ==
  LET s == call.steps IN
  /\ \A i, j \in DOMAIN s : i < j => Rank(s[i].op) < Rank(s[j].op)
  /\ \A i \in DOMAIN s : i < Len(s) =>
        \/ s[i].r = "fail"
        \/ /\ s[i].op = "initializeSpotifyPlayer" /\ s[i].r = "ok"
           /\ s[i+1].op = "playWithSDK"
  /\ (call.pc \in {"sdkInit", "sdkPlay", "playPending", "waitStart", "remote"})
        <=> (s # <<>> /\ Last(s).r = "pending")
  /\ call.pc = "sdkInit" => Last(s).op = "initializeSpotifyPlayer"
  /\ call.pc = "sdkPlay" => Last(s).op = "playWithSDK"
  /\ call.pc \in {"playPending", "waitStart"} => Last(s).op = "playPreview"
  /\ call.pc = "remote" => Last(s).op = "playWithConnectAPI"

C2_Witness ==
  /\ Len(call.steps) = 4
  /\ call.pc = "done"

\* C3: a failed metadata request (any non-success status, or no response)
\* rejects playTrack, starts no strategy and leaves the audio element and the
\* SDK state as they were.
C3_MetadataFailureAborts ==
  [][ (call.pc = "meta" /\ call'.pc # "meta" /\ call'.status \notin 200..299)
        => /\ call'.pc = "done"
           /\ call'.result = Rejected(MetadataMessage)
           /\ call'.steps = <<>>
           /\ UNCHANGED <<audioElement, audioUnlocked, keepAliveActive, sdkVars>> ]_vars

C3_Witness ==
  /\ call.status = 500 /\ call.result.st = "rejected"
  /\ audioElement.exists /\ ncalls = MaxCalls

\* C4: when the SDK play command succeeds the result is exactly
\* {type: 'full', track}, no step of that call has modified the preview
\* element, and neither preview nor remote dispatch was started.
C4_SdkSuccessTouchesNothing ==
  [][ /\ (call'.steps # <<>> /\ Last(call'.steps) = [op |-> "playWithSDK", r |-> "ok"])
         => /\ call'.result = Resolved([type |-> "full", track |-> Catalogue(call'.trackId)])
            /\ ~HasOp(call', "playPreview")
            /\ ~HasOp(call', "playWithConnectAPI")
      /\ (CallAdvances /\ ~HasOp(call', "playPreview"))
         => audioElement' = audioElement ]_vars

C4_Witness ==
  /\ call.steps # <<>> /\ Last(call.steps) = [op |-> "playWithSDK", r |-> "ok"]
  /\ ~audioElement.paused /\ audioElement.src = PreviewUrlOf("trackA")

\* C5: on an iOS / iPadOS navigator no call initializes the SDK or sends the
\* play-on-device command; the first operation is preview when the track has a
\* preview URL and remote dispatch otherwise.
C5_NoSdkOnIOS ==
  GestureRestrictive =>
    /\ ~HasOp(call, "initializeSpotifyPlayer")
    /\ ~HasOp(call, "playWithSDK")
    /\ scriptTags = 0 /\ players = <<>> /\ deviceId = 0 /\ spotifyPlayer = 0
    /\ call.steps # <<>> =>
         call.steps[1].op = IF Catalogue(call.trackId).preview_url # NoUrl
                            THEN "playPreview" ELSE "playWithConnectAPI"

C5_Witness ==
  /\ nav.platform = "MacIntel" /\ GestureRestrictive
  /\ call.id = MaxCalls /\ call.steps # <<>>

\* C6: when the 300 ms timer decides the detection with the element paused,
\* playTrack resolves with {type: 'preview', track, autoplayBlocked: true} and
\* remote dispatch is not started.
C6_TimerPausedIsAutoplayBlocked ==
  call.signal = "timerPaused" =>
    /\ call.pc = "done"
    /\ call.result = Resolved([type |-> "preview", track |-> Catalogue(call.trackId),
                               autoplayBlocked |-> TRUE])
    /\ ~HasOp(call, "playWithConnectAPI")

C6_Witness == call.signal = "timerPaused"

\* every strategy the call attempted has failed
AllFailed(cl) ==
  /\ cl.steps # <<>>
  /\ \A i \in DOMAIN cl.steps :
       \/ cl.steps[i].r = "fail"
       \/ cl.steps[i].op = "initializeSpotifyPlayer" /\ cl.steps[i].r = "ok"

\* C7: a settled call all of whose strategies failed is rejected with the
\* terminal error; in particular on iOS, for a track without preview, a failed
\* remote dispatch is the only operation and ends in that error.
C7_ExhaustionIsTerminalError ==
  /\ (call.pc = "done" /\ AllFailed(call)) => call.result = Rejected(TerminalMessage)
  /\ (GestureRestrictive /\ Catalogue(call.trackId).preview_url = NoUrl
        /\ call.steps # <<>> /\ Last(call.steps).r = "fail")
       => /\ call.steps = <<[op |-> "playWithConnectAPI", r |-> "fail"]>>
          /\ call.result = Rejected(TerminalMessage)

C7_Witness ==
  /\ GestureRestrictive /\ call.trackId = "trackB"
  /\ call.pc = "done" /\ AllFailed(call)

\* C8: with a credential and resolved metadata, playTrack is rejected only
\* when remote dispatch was attempted and failed.
C8_OnlyRemoteFailureRejects ==
  (call.meta = "ok" /\ call.result.st = "rejected")
     => Last(call.steps) = [op |-> "playWithConnectAPI", r |-> "fail"]

C8_Witness ==
  /\ call.meta = "ok" /\ call.pc = "remote"
  /\ Len(call.steps) = 4 /\ call.steps[3].r = "fail"

\* C9: on iOS, when the detector receives 'playing', playTrack resolves with
\* {type: 'preview', track} without autoplayBlocked and remote dispatch is not
\* started.
C9_PlayingEventGivesPreview ==
  (GestureRestrictive /\ call.signal = "playing") =>
    /\ call.pc = "done"
    /\ call.result = Resolved([type |-> "preview", track |-> Catalogue(call.trackId)])
    /\ ~HasOp(call, "playWithConnectAPI")

C9_Witness == GestureRestrictive /\ call.signal = "playing"

\* C10: playPreview calls stopPreview before assigning the source exactly
\* when keep-alive is not active at the time of the call.
C10_KeepAliveSkipsStop ==
  [][ (HasOp(call', "playPreview") /\ (call'.id # call.id \/ ~HasOp(call, "playPreview")))
        => call'.stopped = ~keepAliveActive ]_vars

C10_Witness ==
  /\ HasOp(call, "playPreview") /\ call.kaAtEntry /\ ~call.stopped
  /\ call.pc = "waitStart"

\* the preview element is producing sound (the silent clip is not a strategy)
Audible(a) ==
  /\ a.exists /\ ~a.paused /\ ~a.error /\ ~a.muted
  /\ a.src \notin {"", SILENT_AUDIO_SRC}

\* an SDK device of this page is playing
SdkAudible(ps) == \E p \in DOMAIN ps : ps[p].playback = "playing"

\* the step settles the call in flight with a value
CallResolves == call.pc # "done" /\ call'.pc = "done" /\ call'.result.st = "resolved"

\* C11: when a call succeeds, the resource of the other strategy is quiet:
\* the preview element is not sounding when the result is 'full' (SDK or
\* remote), and no SDK device is playing when the result is a started preview.
C11_NewStrategyQuiescesPrevious ==
  [][ CallResolves =>
        /\ call'.result.value.type = "full" => ~Audible(audioElement')
        /\ call'.result.value = [type |-> "preview", track |-> Catalogue(call'.trackId)]
             => ~SdkAudible(players') ]_vars

\* the last call settled with a result of type 'preview'
PreviewResult ==
  call.pc = "done" /\ call.result.st = "resolved" /\ call.result.value.type = "preview"

\* C12: in every state reached after a call whose result type is 'preview',
\* pause() leaves the shared audio element paused and resume() (accepted by the
\* browser, source usable) leaves it playing, also when an SDK player object
\* exists from an earlier SDK attempt.
C12_PreviewPauseResumeReachElement ==
  PreviewResult =>
    /\ pause(audioElement, spotifyPlayer).paused
    /\ ~audioElement.error => ~resume(audioElement, spotifyPlayer, TRUE).paused

Clamp(n) == IF n < 0 THEN 0 ELSE IF n > 100 THEN 100 ELSE n

\* C13: for every input n, changeVolume(n) stores n clamped to 0..100 and
\* leaves the element's volume at that clamped value / 100; in particular
\* changeVolume(150) and changeVolume(100) leave the same state.
C13_ChangeVolumeClamps ==
  \A n \in VolumeInputs :
    /\ setVolume(n) = Clamp(n)
    /\ audioElement.exists => setPreviewVolume(audioElement, n).volume = Clamp(n)
    /\ setPreviewVolume(audioElement, 150) = setPreviewVolume(audioElement, 100)

\* C14: stopPreview leaves the element, whatever its state, paused at position
\* 0, and a resumePreview right after it (accepted by the browser, no new
\* source) plays from position 0.
C14_StopResetsResumeFromStart ==
  audioElement.exists =>
    LET stopped == stopPreview(audioElement)
        resumed == resumePreview(stopped, TRUE)
    IN  /\ stopped.paused /\ stopped.currentTime = 0 /\ stopped.pending = "none"
        /\ stopped.src = audioElement.src
        /\ resumed.currentTime = 0
        /\ ~stopped.error => ~resumed.paused

C14_Witness ==
  /\ audioElement.exists /\ ~audioElement.paused /\ audioElement.currentTime = MaxTime
  /\ audioElement.src = PreviewUrlOf("trackA")

C16_InitializeAlwaysTimesOut ==
  call.pc = "sdkInit" => call.initTimer

\* C17: in one page lifetime the SDK script element is appended to the page
\* at most once, whatever sequence of calls is made.
C17_ScriptAddedAtMostOnce == scriptTags <= 1

\* C18: the cached device id goes from unset to set only in a step that is a
\* player's 'ready' event (to that player's id), and from set to unset only in
\* a step that disconnects the current player; a play-on-device request is
\* sent only with the device id set, and names that device.
C18_DeviceIdSetByReadyClearedByDisconnect ==
  [][ /\ (deviceId = 0 /\ deviceId' # 0)
         => /\ deviceId' \in DOMAIN players
            /\ players[deviceId'].status = "connecting"
            /\ players'[deviceId'].status = "ready"
      /\ (deviceId # 0 /\ deviceId' = 0)
         => /\ spotifyPlayer # 0 /\ spotifyPlayer' = 0
            /\ players'[spotifyPlayer].status = "disconnected"
      /\ (call'.pc = "sdkPlay" /\ call' # call)
         => /\ deviceId' # 0
            /\ call'.dev = deviceId' ]_vars

C18_Witness ==
  /\ Len(players) = 2 /\ players[1].status = "disconnected"
  /\ deviceId = 2 /\ call.pc = "sdkPlay" /\ call.dev = 2

\* C19: the unlocked flag never goes back from true to false, whatever
\* operation or event takes the step, failed ones included.
C19_UnlockedIsMonotonic ==
  [][ audioUnlocked => audioUnlocked' ]_vars

C19_Witness ==
  /\ audioUnlocked /\ ~keepAliveActive
  /\ audioElement.paused /\ audioElement.src = PreviewUrlOf("trackA")
  /\ call.pc = "done" /\ call.result.st = "rejected" /\ call.meta = "ok"

\* C20: keepAliveActive implies unlocked in every state; the step that settles
\* the keep-alive's play() promise sets both flags when play() succeeded and
\* leaves both as they were when it was rejected.
C20_KeepAliveImpliesUnlocked ==
  [][ /\ keepAliveActive' => audioUnlocked'
      /\ (audioElement.pending = "ka" /\ audioElement'.pending # "ka")
         => IF audioElement' = [audioElement EXCEPT !.pending = "none"]
            THEN keepAliveActive' /\ audioUnlocked'
            ELSE UNCHANGED <<keepAliveActive, audioUnlocked>> ]_vars

C20_Witness ==
  /\ keepAliveActive /\ audioUnlocked
  /\ ~audioElement.paused /\ audioElement.src = SILENT_AUDIO_SRC
  /\ audioElement.loop /\ audioElement.muted

\* C21: the metadata request (observed through loadTrack, which passes
\* getTrack's outcome on unchanged) is answered once: the response settles the
\* call in the same step, with 'Track not found' exactly for 404,
\* 'Authentication required' exactly for 401, the generic failure for every
\* other non-success status, and the track for every status 200..299.
C21_GetTrackErrorKinds ==
  [][ (call.pc = "loadMeta" /\ call' # call)
        => /\ call'.pc = "done"
           /\ call'.status \in BackendStatuses
           /\ call'.meta = "ok" <=> call'.status \in 200..299
           /\ call'.meta = "ok" => call'.track = Catalogue(call.trackId)
           /\ call'.result = Rejected("Track not found") <=> call'.status = 404
           /\ call'.result = Rejected("Authentication required") <=> call'.status = 401
           /\ (call'.status >= 0 /\ call'.status \notin (200..299) \cup {401, 404})
                => call'.result = Rejected("Failed to fetch track") ]_vars

C21_Witness ==
  /\ call.fn = "loadTrack" /\ call.status = 403
  /\ call.result = Rejected("Failed to fetch track")

\* C22: every track identifier handed to the play entry point is 22
\* alphanumeric characters and was taken from a track link, never from a
\* spotify.link short code.
C22_OnlyValidTrackIdsReachPlay ==
  \A i \in DOMAIN scanner.passed :
    /\ isValidTrackId(scanner.passed[i].trackId)
    /\ scanner.passed[i].text.prefix # "https://spotify.link/"

\* invocation i of play() settles in this step with the given outcome
SettlesWith(i, outcome) ==
  /\ i \in DOMAIN hookCalls /\ hookCalls[i].st = "pending"
  /\ hookCalls'[i].st = "settled" /\ hookCalls'[i].outcome = outcome

\* C23: when the playTrack awaited by play(trackId) resolves with
\* autoplayBlocked: true, the store holds the returned track, playbackType
\* 'preview', no error, isLoading false, isPlaying false and autoplayBlocked
\* true.
C23_BlockedIsDeferredPlay ==
  [][ \A i \in DOMAIN hookCalls :
        SettlesWith(i, Resolved([type |-> "preview", track |-> Catalogue("trackA"),
                                 autoplayBlocked |-> TRUE]))
          => /\ playerStore'.currentTrack = Catalogue("trackA")
             /\ playerStore'.playbackType = "preview"
             /\ playerStore'.error = "null"
             /\ ~playerStore'.isLoading
             /\ ~playerStore'.isPlaying
             /\ "autoplayBlocked" \in DOMAIN playerStore'
             /\ playerStore'.autoplayBlocked ]_vars

\* C24: the disposer of a subscription may be called repeatedly and after the
\* element has been given another source; once it has been called the
\* callback is never invoked again and the listener is off the element, while
\* the listener of every subscription not yet disposed stays registered.
C24_DisposerIsSafeAndFinal ==
  \A k \in DOMAIN progressSubs :
    /\ ~progressSubs[k].late
    /\ progressSubs[k].disposals > 0 => ~progressSubs[k].listening
    /\ (progressSubs[k].registered /\ progressSubs[k].disposals = 0)
         => progressSubs[k].listening

C24_Witness ==
  /\ Len(progressSubs) = 2
  /\ progressSubs[1].heard /\ progressSubs[1].disposals = 2
  /\ progressSubs[2].heard /\ progressSubs[2].disposals = 0
  /\ audioElement.src = PreviewUrlOf("trackA") /\ ~audioElement.paused
  /\ audioElement.currentTime = MaxTime

\* C25: disconnectPlayer is safe and idempotent in every state: whenever an
\* SDK device exists (a handle is held, a device id is cached, or a constructed
\* player is still connected), after disconnectPlayer the handle and the
\* cached device id are unset and no player remains connected; when none
\* exists the SDK state is unchanged; applied a second time right away it
\* changes nothing.
C25_DisconnectIsSafeAndIdempotent ==
  LET d1 == disconnectPlayer(spotifyPlayer, deviceId, players, audioElement)
      d2 == disconnectPlayer(d1.spotifyPlayer, d1.deviceId, d1.players, d1.audioElement)
      exists == \/ spotifyPlayer # 0
                \/ deviceId # 0
                \/ \E p \in DOMAIN players : players[p].status \in {"connecting", "ready"}
  IN  /\ exists
         => /\ d1.spotifyPlayer = 0 /\ d1.deviceId = 0
            /\ \A p \in DOMAIN players : d1.players[p].status \notin {"connecting", "ready"}
      /\ ~exists
         => /\ d1.spotifyPlayer = spotifyPlayer /\ d1.deviceId = deviceId
            /\ d1.players = players
      /\ d2 = d1

\* C26: whenever the 300 ms timer decides the start detection (neither
\* 'playing' nor 'timeupdate' fired first), the attempt is classified as
\* autoplay-blocked, whatever the element's paused flag was when it fired:
\* playTrack resolves with {type: 'preview', track, autoplayBlocked: true}.
C26_TimerExpiryIsAutoplayBlocked ==
  call.signal \in {"timerPaused", "timerPlaying"} =>
    /\ call.pc = "done"
    /\ call.result = Resolved([type |-> "preview", track |-> Catalogue(call.trackId),
                               autoplayBlocked |-> TRUE])

\* C27: the start-detection race resolves at most once, and exactly once by
\* the time playPreview has moved on; the first of 'playing', 'timeupdate',
\* 'pause' and the timer to call finish decides, and any later call of finish
\* changes nothing; while it is undecided its three listeners are on the
\* element, and once it is decided none of them is, whichever of the four
\* decided it.
C27_RaceResolvesOnceAndCleansUp ==
  /\ race.resolved <= 1
  /\ race.done <=> race.resolved = 1
  /\ race.done => race.listeners = {}
  /\ race.done => \A started \in BOOLEAN : finish(race, started) = race
  /\ (race.armed /\ ~race.done)
       <=> (call.pc = "waitStart" /\ race.listeners = {"playing", "timeupdate", "pause"})
  /\ call.signal \in {"playing", "timeupdate", "pause", "timerPaused", "timerPlaying"}
       => race.done

C27_Witness ==
  /\ race.done /\ race.resolved = 1
  /\ call.signal = "pause"
  /\ call.id = MaxCalls

\* C28: in every reachable state keepAliveActive is true only while the
\* silent clip is running on the shared element: its source is the silent
\* clip, loop and muted are set, and it is not paused.
C28_KeepAliveMeansSilentClipRunning ==
  keepAliveActive =>
    /\ audioElement.exists
    /\ audioElement.src = SILENT_AUDIO_SRC
    /\ audioElement.loop /\ audioElement.muted
    /\ ~audioElement.paused

\* C29: the SDK device is a singleton: at any time at most one player that
\* was constructed and connected has not been disconnected (or failed), also
\* after a playTrack that follows a failed or timed-out initialisation.
C29_SdkDeviceIsSingleton ==
  Cardinality({p \in DOMAIN players : players[p].status \in {"connecting", "ready"}}) <= 1

\* the UI state shows the outcome of a play() call
Reflects(st, outcome) ==
  IF outcome.st = "resolved"
  THEN /\ st.currentTrack = outcome.value.track
       /\ st.playbackType = outcome.value.type
       /\ st.error = "null"
  ELSE st.error = outcome.message

\* C30: when play() calls overlap, a call that settles while another is still
\* in flight leaves isLoading true, and the call whose settling leaves none in
\* flight leaves the UI state (currentTrack, playbackType, error) reflecting
\* the call issued last, with isLoading false, in either order of completion.
C30_LaterPlaySupersedes ==
  [][ \A i \in DOMAIN hookCalls :
        ( /\ hookCalls[i].st = "pending" /\ hookCalls'[i].st = "settled"
          /\ \E j \in DOMAIN hookCalls : hookCalls[j].overlaps )
        => IF \E j \in DOMAIN hookCalls : j # i /\ hookCalls[j].st = "pending"
           THEN playerStore'.isLoading
           ELSE /\ Reflects(playerStore', hookCalls'[Len(hookCalls)].outcome)
                /\ ~playerStore'.isLoading ]_vars

\* C31: whenever a preview clip is loaded in the shared element, the
\* element's volume is the UI's stored volume (both on the 0..100 scale),
\* after any sequence of changeVolume and play operations of the hook.
C31_PreviewPlaysAtStoredVolume ==
  (audioElement.exists /\ audioElement.src \notin {"", SILENT_AUDIO_SRC})
    => audioElement.volume = playerStore.volume

\* C32: a playTrack call whose metadata fetch failed rejects with the error
\* kind the track resolver raised: 'Authentication required' for a 401 and
\* 'Track not found' for a 404, each different from the error of any other
\* failure.
C32_MetadataErrorKindPreserved ==
  (call.fn = "playTrack" /\ call.meta = "fail") =>
    /\ call.result.st = "rejected"
    /\ call.status = 401 => call.result = Rejected("Authentication required")
    /\ call.status = 404 => call.result = Rejected("Track not found")
    /\ call.status \notin {401, 404}
         => call.result.message \notin {"Authentication required", "Track not found"}

\* C33: any two consecutive onScanSuccess callbacks are at least 2000 ms
\* apart: a decode arriving less than SCAN_COOLDOWN after the previously
\* processed one makes no callback.
C33_ScanCallbacksAreDebounced ==
  \A i \in 1..(Len(scanner.passed) - 1) :
    scanner.passed[i + 1].at - scanner.passed[i].at >= SCAN_COOLDOWN

\* C36: the scanner's starting and stopping guards are never both set, both
\* are clear whenever no start or stop call is in progress, and once the
\* component has unmounted and every pending operation has settled the
\* camera scanner is not running.
C36_StopIsNotLost ==
  /\ ~(camera.isStarting /\ camera.isStopping)
  /\ Settled(camera) => (~camera.isStarting /\ ~camera.isStopping)
  /\ (~camera.mounted /\ Settled(camera)) => camera.state # "SCANNING"

\* C35: in every reachable state a set SDK device id implies that the module
\* holds an SDK player object: a 'ready' event that arrives after
\* disconnectPlayer does not leave a device id behind.
C35_DeviceIdImpliesPlayer ==
  deviceId # 0 => spotifyPlayer # 0

\* C39: after preparePreview(url, volume), from any reachable state and also
\* while the keep-alive loop is active, the shared element is ready for a
\* later resume: its source is url, its position 0, its volume the requested
\* one, and it is paused, not muted and not looping. preparePreview runs when
\* the metadata of a loadTrack call arrives with a preview.
C39_PreparedElementIsAudibleReady ==
  [][ (call.pc = "loadMeta" /\ call'.pc = "done" /\ call'.result.st = "resolved")
      => /\ audioElement'.exists
         /\ audioElement'.src = PreviewUrlOf(call.trackId)
         /\ audioElement'.currentTime = 0
         /\ audioElement'.volume = call.volume
         /\ audioElement'.paused
         /\ ~audioElement'.muted
         /\ ~audioElement'.loop ]_vars

\* C34: OAuth callback CSRF check. handleCallback with a state value other
\* than the one stored at login sends no token-exchange request, stores no
\* tokens, leaves isAuthenticated, accessToken and user as they were, sets a
\* non-null error and ends with isLoading false. Stated of handleCallback
\* applied to every reachable state of the store and every such state value.
C34_ForgedStateIsRejected ==
  \A state \in CallbackStates :
    state # auth.sessionStorage.state
      => LET after == handleCallback(auth, "code", state)
         IN  /\ after.flows = auth.flows /\ after.nflows = auth.nflows
             /\ after.localStorage = NoTokens
             /\ after.sessionStorage = auth.sessionStorage
             /\ after.isAuthenticated = auth.isAuthenticated
             /\ after.accessToken = auth.accessToken
             /\ after.user = auth.user
             /\ after.error = InvalidStateMessage
             /\ ~after.isLoading

\* a forged callback was handled on a page where a login was pending and
\* tokens of an earlier visit were stored
C34_Witness ==
  /\ auth.callbackProcessed
  /\ auth.error = InvalidStateMessage
  /\ auth.sessionStorage = [state |-> 1, verifier |-> TRUE]
  /\ auth.isAuthenticated /\ auth.accessToken = StoredAccessToken
  /\ auth.localStorage = NoTokens

\* C37: logout is final with respect to work in flight. Once logout() has
\* returned and no operation was started since, the completion of an earlier
\* handleCallback, refreshAccessToken or initialize profile fetch neither
\* sets isAuthenticated again nor writes tokens to storage; and
\* isAuthenticated always implies that accessToken and user are non-null.
C37_LogoutIsFinal ==
  /\ auth.loggedOut => (~auth.isAuthenticated /\ auth.localStorage = NoTokens)
  /\ auth.isAuthenticated => (auth.accessToken # 0 /\ auth.user # 0)

\* C38: auth loading always ends. Once initialize() has been called and every
\* request the store started has settled, with success or not, isLoading is
\* false, so that the login button is enabled.
C38_LoadingEndsWithTheRequests ==
  (auth.inits > 0 /\ auth.flows = {}) => ~auth.isLoading

====
